---------------------------- MODULE Spec2Model ----------------------------
(***************************************************************************)
(* Auto-parking simulation: the Vehicle state machine (vehicle.py), the    *)
(* grid A* PathFinder (pathfinding.py), the ParkingSimulation orchestrator *)
(* (parking.py), and the spot selection of main.py.  Spec and RunSpec run  *)
(* the orchestrator; PathSpec, VehicleSpec, CollisionSpec and NearestSpec  *)
(* call the PathFinder, the Vehicle, the collision test and the spot       *)
(* selection directly; SearchSpec runs one find_path loop iteration per    *)
(* step.                                                                   *)
(*                                                                         *)
(* Numbers.  The program computes in floats; the model computes in fixed   *)
(* point:                                                                  *)
(*   - a velocity is a multiple of 0.05 (every velocity step of the code   *)
(*     is 0.05, 0.1 or a clamp), held as an integer count of 1/VelScale;   *)
(*   - a heading is an integer number of degrees (the orchestrator's       *)
(*     vehicle starts at 0 and turns by turning_speed = 2 each time);      *)
(*   - cos and sin come from a table of 1/TrigScale;                       *)
(*   - a position is an integer count of 1/PosScale world units, with      *)
(*     PosScale = VelScale * TrigScale, so velocity * cos(heading) is an   *)
(*     exact product;                                                      *)
(*   - the heading error to a bearing is never computed as an angle: the   *)
(*     code only compares it with the deadband and tests its sign, and     *)
(*     both are decided with cross and dot products of the bearing vector  *)
(*     with table directions;                                              *)
(*   - case distinctions on distances compare squares.                     *)
(* TLC integers are 32 bit, so long vectors are scaled down before they    *)
(* are multiplied (DistScale, GeoScale, DirLimit).                         *)
(***************************************************************************)
EXTENDS Integers, Sequences, FiniteSets, TLC

VARIABLES
    vehicle,          \* ParkingSimulation.vehicle: the Vehicle's fields
    obstacles,        \* ParkingSimulation.obstacles: sequence of Rects
    parking_spots,    \* ParkingSimulation.parking_spots: sequence of spots
    current_attempt,  \* ParkingSimulation.current_attempt
    status,           \* ParkingSimulation.status
    active_spot,      \* ParkingSimulation.active_spot (NoneSpot for None)
    attempts,         \* history: one entry per spot selected in this run
    last_op,          \* history: the operation that produced this state
    frame,            \* history: parity of the update() calls of this run
    find_calls,       \* history: find_parking_spot calls made by last_op
    plan_calls,       \* history: find_path calls made by last_op
    set_path_in,      \* history: vehicle states in which last_op called set_path
    probe             \* a call of a function on its own: arguments and result

vars == <<vehicle, obstacles, parking_spots, current_attempt, status,
          active_spot, attempts, last_op, frame, find_calls, plan_calls,
          set_path_in, probe>>

-----------------------------------------------------------------------------
(* Bounds of the model *)

\* a world has at most this many vacant slots (the others hold a red car)
MaxVacant == 1

\* the PathFinder is called on grids of this many cells a side
GridSide == 6

\* main.py's spot selection is called with at most this many spots unoccupied
MaxFree == 2

\* a Vehicle on its own is given at most this many commands between resets
MaxCommands == 2


-----------------------------------------------------------------------------
(* Program constants *)

WINDOW_WIDTH == 1200
WINDOW_HEIGHT == 800
grid_size == 20
max_attempts == 3
turning_speed == 2
vehicle_width == 40
vehicle_length == 80
parallel_count == 6
perp_count == 4
CAR_LENGTH == 40
CAR_WIDTH == 20

(* Fixed-point units *)
VelScale == 20          \* 1/VelScale = 0.05, the code's smallest velocity step
TrigScale == 10000      \* resolution of the cos/sin table
PosScale == 200000      \* VelScale * TrigScale
DistScale == 100        \* distance thresholds are compared at PosScale / DistScale
GeoScale == 16          \* collision geometry is computed in 1/GeoScale units
DirLimit == 65536       \* bearing vectors are scaled below this before products

max_velocity == 4 * VelScale        \* 4
acceleration == VelScale \div 10     \* 0.1
turn_decel == VelScale \div 20       \* 0.05, the step of max(0, velocity - 0.05)

-----------------------------------------------------------------------------
(* Arithmetic helpers *)

Abs(a) == IF a < 0 THEN -a ELSE a
Min(a, b) == IF a < b THEN a ELSE b
Max(a, b) == IF a > b THEN a ELSE b

\* Python's int(a / b) for b > 0: truncation toward zero
Trunc(a, b) == IF a >= 0 THEN a \div b ELSE -((-a) \div b)

\* a local variable: F applied to the value e assigned to it
Bind(e, F(_)) == F(e)

CosTable ==
   << 10000, 9998, 9994, 9986, 9976, 9962, 9945, 9925, 9903, 9877,
      9848, 9816, 9781, 9744, 9703, 9659, 9613, 9563, 9511, 9455,
      9397, 9336, 9272, 9205, 9135, 9063, 8988, 8910, 8829, 8746,
      8660, 8572, 8480, 8387, 8290, 8192, 8090, 7986, 7880, 7771,
      7660, 7547, 7431, 7314, 7193, 7071, 6947, 6820, 6691, 6561,
      6428, 6293, 6157, 6018, 5878, 5736, 5592, 5446, 5299, 5150,
      5000, 4848, 4695, 4540, 4384, 4226, 4067, 3907, 3746, 3584,
      3420, 3256, 3090, 2924, 2756, 2588, 2419, 2250, 2079, 1908,
      1736, 1564, 1392, 1219, 1045, 872, 698, 523, 349, 175,
      0 >>

\* TrigScale * cos(deg degrees), for any integer deg
Cos(deg) ==
    LET a == deg % 360
    IN  IF a <= 90 THEN CosTable[a + 1]
        ELSE IF a <= 180 THEN -CosTable[180 - a + 1]
        ELSE IF a <= 270 THEN -CosTable[a - 180 + 1]
        ELSE CosTable[360 - a + 1]

\* TrigScale * sin(deg degrees)
Sin(deg) == Cos(deg - 90)

\* A vector scaled (toward zero) until both components are below DirLimit;
\* the zero vector becomes the direction atan2(0, 0) = 0.
Direction(dx, dy) ==
    LET m == Max(Abs(dx), Abs(dy))
        q == (m \div DirLimit) + 1
    IN  IF dx = 0 /\ dy = 0 THEN <<1, 0>>
        ELSE <<Trunc(dx, q), Trunc(dy, q)>>

\* |d| * TrigScale * sin(bearing(d) - h) and ... * cos(bearing(d) - h)
Cross(h, d) == Cos(h) * d[2] - Sin(h) * d[1]
Dot(h, d) == Cos(h) * d[1] + Sin(h) * d[2]

\* angle_diff = (degrees(atan2(dy, dx)) - angle) % 360, wrapped to (-180, 180]:
\* abs(angle_diff) <= band
WithinBand(h, d, band) ==
    /\ Dot(h, d) > 0
    /\ Cross(h - band, d) >= 0
    /\ Cross(h + band, d) <= 0

\* angle_diff > 0 (180 counts as positive)
DiffPositive(h, d) ==
    \/ Cross(h, d) > 0
    \/ Cross(h, d) = 0 /\ Dot(h, d) < 0

-----------------------------------------------------------------------------
(* pygame.Rect *)

Rect(x, y, w, h) == [left |-> x, top |-> y, width |-> w, height |-> h]
right(r) == r.left + r.width
bottom(r) == r.top + r.height
centerx(r) == r.left + (r.width \div 2)
centery(r) == r.top + (r.height \div 2)

-----------------------------------------------------------------------------
(* Vehicle: collision test (vehicle.py) *)

\* rotate_point(cx, cy, 0, 0, angle) added to the vehicle position, in
\* 1/GeoScale units (cx, cy in world units)
Corner(v, cx, cy) ==
    LET rx == cx * Cos(v.angle) - cy * Sin(v.angle)
        ry == cx * Sin(v.angle) + cy * Cos(v.angle)
        unit == PosScale \div GeoScale
    IN  << (v.x + rx * VelScale) \div unit, (v.y + ry * VelScale) \div unit >>

get_corners(v) ==
    LET half_length == vehicle_length \div 2
        half_width == vehicle_width \div 2
    IN  << Corner(v, -half_length, -half_width),
           Corner(v, half_length, -half_width),
           Corner(v, half_length, half_width),
           Corner(v, -half_length, half_width) >>

ccw(a, b, c) == (c[2] - a[2]) * (b[1] - a[1]) > (b[2] - a[2]) * (c[1] - a[1])

do_lines_intersect(p1, p2, p3, p4) ==
    /\ ccw(p1, p3, p4) # ccw(p2, p3, p4)
    /\ ccw(p1, p2, p3) # ccw(p1, p2, p4)

\* One step of the ray-casting loop: does edge p1-p2 flip `inside`?
\* x <= xinters with xinters = (y - p1y) * (p2x - p1x) / (p2y - p1y) + p1x
\* is decided without the division.
EdgeFlips(point, p1, p2) ==
    LET x == point[1]
        y == point[2]
        num == (y - p1[2]) * (p2[1] - p1[1])
        den == p2[2] - p1[2]
    IN  /\ y > Min(p1[2], p2[2])
        /\ y <= Max(p1[2], p2[2])
        /\ x <= Max(p1[1], p2[1])
        /\ \/ p1[1] = p2[1]
           \/ IF den > 0 THEN (x - p1[1]) * den <= num
                         ELSE (x - p1[1]) * den >= num

\* the loop runs i = 0..n with p1 = polygon[(i-1) % n] (polygon[0] for i = 0)
\* and p2 = polygon[i % n]; `inside` is the parity of the flips
is_point_in_polygon(point, polygon) ==
    LET n == Len(polygon)
        flips == { i \in 0..n :
                     EdgeFlips(point,
                               IF i = 0 THEN polygon[1] ELSE polygon[((i - 1) % n) + 1],
                               polygon[(i % n) + 1]) }
    IN  Cardinality(flips) % 2 = 1

check_rectangle_collision(vehicle_corners, obstacle_rect) ==
    Bind(<< <<obstacle_rect.left * GeoScale, obstacle_rect.top * GeoScale>>,
            <<right(obstacle_rect) * GeoScale, obstacle_rect.top * GeoScale>>,
            <<right(obstacle_rect) * GeoScale, bottom(obstacle_rect) * GeoScale>>,
            <<obstacle_rect.left * GeoScale, bottom(obstacle_rect) * GeoScale>> >>,
         LAMBDA obstacle_corners :
        \/ \E i \in 0..3 : \E j \in 0..3 :
              do_lines_intersect(vehicle_corners[i + 1],
                                 vehicle_corners[((i + 1) % 4) + 1],
                                 obstacle_corners[j + 1],
                                 obstacle_corners[((j + 1) % 4) + 1])
        \/ is_point_in_polygon(vehicle_corners[1], obstacle_corners)
        \/ is_point_in_polygon(obstacle_corners[1], vehicle_corners))

is_colliding(v, obs) ==
    Bind(get_corners(v), LAMBDA vehicle_corners :
        \E k \in 1..Len(obs) : check_rectangle_collision(vehicle_corners, obs[k]))

-----------------------------------------------------------------------------
(* Vehicle: fields and commands (vehicle.py) *)

\* Vehicle.__init__(x, y, angle): x, y in world units.  target_x / target_y /
\* target_angle = None is has_target / has_target_angle = FALSE.
Vehicle(x0, y0, angle0) ==
    [ x |-> x0 * PosScale, y |-> y0 * PosScale,
      start_x |-> x0 * PosScale, start_y |-> y0 * PosScale,
      angle |-> angle0, start_angle |-> angle0,
      velocity |-> 0,
      has_target |-> FALSE, target_x |-> 0, target_y |-> 0,
      has_target_angle |-> FALSE, target_angle |-> 0,
      path |-> <<>>, current_path_index |-> 0,
      state |-> "idle" ]

vehicle_reset(v) ==
    [ v EXCEPT !.x = v.start_x, !.y = v.start_y, !.angle = v.start_angle,
               !.velocity = 0,
               !.has_target = FALSE, !.target_x = 0, !.target_y = 0,
               !.has_target_angle = FALSE, !.target_angle = 0,
               !.path = <<>>, !.current_path_index = 0,
               !.state = "idle" ]

set_path(v, path) ==
    [ v EXCEPT !.path = path, !.current_path_index = 0 ]

\* target_distance < r (r in world units; dx, dy in 1/PosScale)
DistLess(dx, dy, r) ==
    LET lim == r * (PosScale \div DistScale)
        ex == Trunc(dx, DistScale)
        ey == Trunc(dy, DistScale)
    IN  /\ Abs(ex) < lim
        /\ Abs(ey) < lim
        /\ ex * ex + ey * ey < lim * lim

\* (angle_diff) wrapped to (-180, 180] for two headings in degrees
WrapDiff(to, from) ==
    LET d == (to - from) % 360
    IN  IF d > 180 THEN d - 360 ELSE d

\* angle += / -= min(turning_speed, |angle_diff|); angle %= 360
TurnBy(angle, angle_diff) ==
    IF angle_diff > 0
    THEN (angle + Min(turning_speed, angle_diff)) % 360
    ELSE (angle - Min(turning_speed, -angle_diff)) % 360

\* the motion law without the clamps max(0, .) and min(cap, .)
Pursue_unclamped(v, dx, dy, cap, accel) ==
    Bind(Direction(dx, dy), LAMBDA d :
    Bind(~WithinBand(v.angle, d, 2), LAMBDA turning :
    Bind(IF ~turning THEN v.angle
         ELSE IF DiffPositive(v.angle, d)
              THEN (v.angle + turning_speed) % 360
              ELSE (v.angle - turning_speed) % 360, LAMBDA angle1 :
    Bind(IF turning THEN v.velocity - turn_decel
         ELSE v.velocity + accel, LAMBDA vel1 :
        [ v EXCEPT !.angle = angle1, !.velocity = vel1,
                   !.x = v.x + vel1 * Cos(angle1),
                   !.y = v.y + vel1 * Sin(angle1) ]))))

\* the motion law turning the long way round
Pursue_turns_away(v, dx, dy, cap, accel) ==
    Bind(Direction(dx, dy), LAMBDA d :
    Bind(~WithinBand(v.angle, d, 2), LAMBDA turning :
    Bind(IF ~turning THEN v.angle
         ELSE IF DiffPositive(v.angle, d)
              THEN (v.angle - turning_speed) % 360
              ELSE (v.angle + turning_speed) % 360, LAMBDA angle1 :
    Bind(IF turning THEN Max(0, v.velocity - turn_decel)
         ELSE Min(cap, v.velocity + accel), LAMBDA vel1 :
        [ v EXCEPT !.angle = angle1, !.velocity = vel1,
                   !.x = v.x + vel1 * Cos(angle1),
                   !.y = v.y + vel1 * Sin(angle1) ]))))

\* The motion law shared by _update_moving, _update_parking and
\* _update_returning: steer toward the bearing of (dx, dy), or accelerate
\* toward `cap` by `accel`; then integrate the position.  When the branch is
\* taken abs(angle_diff) > 2 = turning_speed, so min(turning_speed, .) is
\* turning_speed.
Pursue(v, dx, dy, cap, accel) ==
    Bind(Direction(dx, dy), LAMBDA d :
    Bind(~WithinBand(v.angle, d, 2), LAMBDA turning :
    Bind(IF ~turning THEN v.angle
         ELSE IF DiffPositive(v.angle, d)
              THEN (v.angle + turning_speed) % 360
              ELSE (v.angle - turning_speed) % 360, LAMBDA angle1 :
    Bind(IF turning THEN Max(0, v.velocity - turn_decel)
         ELSE Min(cap, v.velocity + accel), LAMBDA vel1 :
        [ v EXCEPT !.angle = angle1, !.velocity = vel1,
                   !.x = v.x + vel1 * Cos(angle1),
                   !.y = v.y + vel1 * Sin(angle1) ]))))

move_to(v, tx, ty, has_angle, tangle) ==
    [ v EXCEPT !.has_target = TRUE, !.target_x = tx, !.target_y = ty,
               !.has_target_angle = has_angle, !.target_angle = tangle,
               !.state = "moving" ]

-----------------------------------------------------------------------------
(* Vehicle.update (vehicle.py) *)

update_moving(v) ==
    IF ~v.has_target
    THEN [ v EXCEPT !.state = "idle" ]
    ELSE
      Bind(v.target_x * PosScale - v.x, LAMBDA dx :
      Bind(v.target_y * PosScale - v.y, LAMBDA dy :
      Bind(Pursue(v, dx, dy, max_velocity, acceleration), LAMBDA m :
          IF ~DistLess(dx, dy, 5) THEN m
          ELSE IF v.has_target_angle
          THEN [ m EXCEPT !.velocity = 0, !.state = "rotating" ]
          ELSE [ m EXCEPT !.velocity = 0, !.state = "idle",
                          !.has_target = FALSE, !.target_x = 0, !.target_y = 0 ])))

update_rotating(v) ==
    IF ~v.has_target_angle
    THEN [ v EXCEPT !.state = "idle" ]
    ELSE
      LET angle_diff == WrapDiff(v.target_angle, v.angle)
      IN  IF Abs(angle_diff) > 1
          THEN [ v EXCEPT !.angle = TurnBy(v.angle, angle_diff) ]
          ELSE [ v EXCEPT !.angle = v.target_angle, !.state = "idle",
                          !.has_target_angle = FALSE, !.target_angle = 0 ]


\* a follow_path that drives at the speed limit of _update_moving
follow_path_full_speed(v) ==
    IF Len(v.path) > 0 /\ v.current_path_index < Len(v.path)
    THEN
      Bind(v.path[v.current_path_index + 1], LAMBDA target :
      Bind(target[1] * PosScale - v.x, LAMBDA dx :
      Bind(target[2] * PosScale - v.y, LAMBDA dy :
      Bind(Pursue(v, dx, dy, max_velocity, acceleration), LAMBDA m :
          IF ~DistLess(dx, dy, 5) THEN m
          ELSE IF v.current_path_index + 1 >= Len(v.path)
          THEN [ m EXCEPT !.current_path_index = v.current_path_index + 1,
                          !.state = "idle", !.velocity = 0 ]
          ELSE [ m EXCEPT !.current_path_index = v.current_path_index + 1 ]))))
    ELSE [ v EXCEPT !.state = "idle", !.velocity = 0 ]

\* a follow_path that steps to the next waypoint in every tick, wherever the
\* vehicle is
follow_path_skips_waypoints(v) ==
    IF Len(v.path) > 0 /\ v.current_path_index < Len(v.path)
    THEN
      Bind(v.path[v.current_path_index + 1], LAMBDA target :
      Bind(target[1] * PosScale - v.x, LAMBDA dx :
      Bind(target[2] * PosScale - v.y, LAMBDA dy :
      Bind(Pursue(v, dx, dy, max_velocity \div 2, acceleration \div 2), LAMBDA m :
          IF v.current_path_index + 1 >= Len(v.path)
          THEN [ m EXCEPT !.current_path_index = v.current_path_index + 1,
                          !.state = "idle", !.velocity = 0 ]
          ELSE [ m EXCEPT !.current_path_index = v.current_path_index + 1 ]))))
    ELSE [ v EXCEPT !.state = "idle", !.velocity = 0 ]

\* _update_parking past its collision test: drive toward the current waypoint
\* at half speed, advance the cursor within 5 units of it, and end in idle
\* after the last waypoint
follow_path(v) ==
    IF Len(v.path) > 0 /\ v.current_path_index < Len(v.path)
    THEN
      Bind(v.path[v.current_path_index + 1], LAMBDA target :
      Bind(target[1] * PosScale - v.x, LAMBDA dx :
      Bind(target[2] * PosScale - v.y, LAMBDA dy :
      Bind(Pursue(v, dx, dy, max_velocity \div 2, acceleration \div 2), LAMBDA m :
          IF ~DistLess(dx, dy, 5) THEN m
          ELSE IF v.current_path_index + 1 >= Len(v.path)
          THEN [ m EXCEPT !.current_path_index = v.current_path_index + 1,
                          !.state = "idle", !.velocity = 0 ]
          ELSE [ m EXCEPT !.current_path_index = v.current_path_index + 1 ]))))
    ELSE [ v EXCEPT !.state = "idle", !.velocity = 0 ]

\* an _update_parking that also stops the car when it detects the collision
update_parking_stops_on_collision(v, obs) ==
    IF is_colliding(v, obs)
    THEN [ v EXCEPT !.state = "returning", !.velocity = 0 ]
    ELSE follow_path(v)

\* an _update_parking that returns on a collision without leaving `parking`
update_parking_stays_on_collision(v, obs) ==
    IF is_colliding(v, obs) THEN v ELSE follow_path(v)

\* an _update_parking without its collision test
update_parking_unchecked(v, obs) == follow_path(v)

update_parking(v, obs) ==
    IF is_colliding(v, obs)
    THEN [ v EXCEPT !.state = "returning" ]
    ELSE follow_path(v)

\* an _update_returning whose arrival branch forgets `self.state = "idle"`
update_returning_never_idles(v) ==
    Bind(v.start_x - v.x, LAMBDA dx :
    Bind(v.start_y - v.y, LAMBDA dy :
        IF DistLess(dx, dy, 10)
        THEN
          Bind(WrapDiff(v.start_angle, v.angle), LAMBDA angle_diff :
              IF Abs(angle_diff) < 2
              THEN [ v EXCEPT !.x = v.start_x, !.y = v.start_y,
                              !.angle = v.start_angle, !.velocity = 0 ]
              ELSE [ v EXCEPT !.x = v.start_x, !.y = v.start_y,
                              !.angle = TurnBy(v.angle, angle_diff) ])
        ELSE Pursue(v, dx, dy, max_velocity, acceleration)))

\* an _update_returning that goes idle as soon as it is near the start
update_returning_skips_heading(v) ==
    Bind(v.start_x - v.x, LAMBDA dx :
    Bind(v.start_y - v.y, LAMBDA dy :
        IF DistLess(dx, dy, 10)
        THEN [ v EXCEPT !.x = v.start_x, !.y = v.start_y,
                        !.velocity = 0, !.state = "idle" ]
        ELSE Pursue(v, dx, dy, max_velocity, acceleration)))

update_returning(v) ==
    Bind(v.start_x - v.x, LAMBDA dx :
    Bind(v.start_y - v.y, LAMBDA dy :
        IF DistLess(dx, dy, 10)
        THEN
          Bind(WrapDiff(v.start_angle, v.angle), LAMBDA angle_diff :
              IF Abs(angle_diff) < 2
              THEN [ v EXCEPT !.x = v.start_x, !.y = v.start_y,
                              !.angle = v.start_angle, !.velocity = 0,
                              !.state = "idle" ]
              ELSE [ v EXCEPT !.x = v.start_x, !.y = v.start_y,
                              !.angle = TurnBy(v.angle, angle_diff) ])
        ELSE Pursue(v, dx, dy, max_velocity, acceleration)))

\* an update() whose idle vehicle drives home
vehicle_update_idle_returns(v, obs) ==
    IF v.state = "idle" THEN update_returning(v)
    ELSE IF v.state = "moving" THEN update_moving(v)
    ELSE IF v.state = "rotating" THEN update_rotating(v)
    ELSE IF v.state = "parking" THEN update_parking(v, obs)
    ELSE IF v.state = "returning" THEN update_returning(v)
    ELSE v

vehicle_update(v, obs) ==
    IF v.state = "idle" THEN v
    ELSE IF v.state = "moving" THEN update_moving(v)
    ELSE IF v.state = "rotating" THEN update_rotating(v)
    ELSE IF v.state = "parking" THEN update_parking(v, obs)
    ELSE IF v.state = "returning" THEN update_returning(v)
    ELSE v

-----------------------------------------------------------------------------
(* PathFinder (pathfinding.py).  A cell is <<x, y>>; step costs and the     *)
(* heuristic are in thousandths (1.414 -> 1414, 0.414 -> 414).              *)

CostScale == 1000
diagonal_cost == 1414
diagonal_extra == 414

is_valid_position(pos, gw, gh) ==
    /\ 0 <= pos[1] /\ pos[1] < gw
    /\ 0 <= pos[2] /\ pos[2] < gh

\* the cells one obstacle marks: its cell range plus the margin of 1, clamped
ObstacleCells(ob, gw, gh) ==
    LET left == Max(0, ob.left \div grid_size)
        right_ == Min(gw - 1, right(ob) \div grid_size)
        top == Max(0, ob.top \div grid_size)
        bottom_ == Min(gh - 1, bottom(ob) \div grid_size)
        margin == 1
    IN  { <<x, y>> \in (Max(0, left - margin) .. (Min(gw, right_ + margin + 1) - 1))
                   \X (Max(0, top - margin) .. (Min(gh, bottom_ + margin + 1) - 1)) : TRUE }

\* the set of cells whose grid[y][x] is True
create_obstacle_grid(obs, gw, gh) ==
    UNION { ObstacleCells(obs[k], gw, gh) : k \in 1..Len(obs) }

heuristic(a, b) ==
    LET dx == Abs(a[1] - b[1])
        dy == Abs(a[2] - b[2])
    IN  CostScale * Max(dx, dy) + diagonal_extra * Min(dx, dy)

\* the neighbor offsets, in the order of the for loop
NeighborOffsets ==
    << <<0, 1>>, <<1, 0>>, <<0, -1>>, <<-1, 0>>,
       <<1, 1>>, <<-1, 1>>, <<1, -1>>, <<-1, -1>> >>

\* heap entries are (priority, (x, y)) tuples, compared as Python compares them
EntryLeq(e, o) ==
    \/ e[1] < o[1]
    \/ e[1] = o[1] /\ e[2] < o[2]
    \/ e[1] = o[1] /\ e[2] = o[2] /\ e[3] <= o[3]

\* heapq.heappop: the least entry
HeapMin(open_set) == CHOOSE e \in open_set : \A o \in open_set : EntryLeq(e, o)

RECURSIVE reconstruct_path(_, _)
\* the cells from `current` back to the start (total_path before reversal)
reconstruct_path(came_from, current) ==
    IF current \in DOMAIN came_from
    THEN <<current>> \o reconstruct_path(came_from, came_from[current])
    ELSE <<current>>

Reverse(s) == [ i \in 1..Len(s) |-> s[Len(s) + 1 - i] ]

\* the neighbor loop body without the test of grid[neighbor[1]][neighbor[0]]
RelaxNeighbor_ignores_grid(st, current, i, end_grid, grid, gw, gh) ==
    Bind(NeighborOffsets[i], LAMBDA off :
    Bind(<<current[1] + off[1], current[2] + off[2]>>, LAMBDA neighbor :
    Bind(IF off[1] # 0 /\ off[2] # 0
         THEN st.g_score[current] + diagonal_cost
         ELSE st.g_score[current] + CostScale, LAMBDA tentative_g_score :
        IF ~is_valid_position(neighbor, gw, gh)
        THEN st
        ELSE IF neighbor \notin DOMAIN st.g_score
                \/ tentative_g_score < st.g_score[neighbor]
        THEN [ st EXCEPT
                 !.came_from = (neighbor :> current) @@ st.came_from,
                 !.g_score = (neighbor :> tentative_g_score) @@ st.g_score,
                 !.open_set =
                     IF neighbor \in st.open_set_hash THEN st.open_set
                     ELSE st.open_set \cup
                          { << tentative_g_score + heuristic(neighbor, end_grid),
                               neighbor[1], neighbor[2] >> },
                 !.open_set_hash = st.open_set_hash \cup {neighbor} ]
        ELSE st)))

\* the body of the neighbor loop for offset number i of `current`
RelaxNeighbor(st, current, i, end_grid, grid, gw, gh) ==
    Bind(NeighborOffsets[i], LAMBDA off :
    Bind(<<current[1] + off[1], current[2] + off[2]>>, LAMBDA neighbor :
    Bind(IF off[1] # 0 /\ off[2] # 0
         THEN st.g_score[current] + diagonal_cost
         ELSE st.g_score[current] + CostScale, LAMBDA tentative_g_score :
        IF ~is_valid_position(neighbor, gw, gh) \/ neighbor \in grid
        THEN st
        ELSE IF neighbor \notin DOMAIN st.g_score
                \/ tentative_g_score < st.g_score[neighbor]
        THEN [ st EXCEPT
                 !.came_from = (neighbor :> current) @@ st.came_from,
                 !.g_score = (neighbor :> tentative_g_score) @@ st.g_score,
                 !.open_set =
                     IF neighbor \in st.open_set_hash THEN st.open_set
                     ELSE st.open_set \cup
                          { << tentative_g_score + heuristic(neighbor, end_grid),
                               neighbor[1], neighbor[2] >> },
                 !.open_set_hash = st.open_set_hash \cup {neighbor} ]
        ELSE st)))

RECURSIVE RelaxAll(_, _, _, _, _, _, _)
RelaxAll(st, current, i, end_grid, grid, gw, gh) ==
    IF i > Len(NeighborOffsets) THEN st
    ELSE RelaxAll(RelaxNeighbor(st, current, i, end_grid, grid, gw, gh),
                  current, i + 1, end_grid, grid, gw, gh)

\* one iteration of `while open_set`: pop, test for the goal, relax the
\* neighbors.  `done` is set when the loop exits: with `found` at the goal,
\* without it when the open set has run empty.
AStarStep(st, end_grid, grid, gw, gh) ==
    IF st.done THEN st
    ELSE IF st.open_set = {} THEN [ st EXCEPT !.done = TRUE ]
    ELSE
      Bind(HeapMin(st.open_set), LAMBDA top :
      Bind(<<top[2], top[3]>>, LAMBDA current :
      Bind([ st EXCEPT !.open_set = st.open_set \ {top},
                       !.open_set_hash = st.open_set_hash \ {current},
                       !.pops = st.pops + 1 ], LAMBDA popped :
          IF current = end_grid
          THEN [ popped EXCEPT !.done = TRUE, !.found = TRUE ]
          ELSE RelaxAll(popped, current, 1, end_grid, grid, gw, gh))))

\* iterations are run in blocks, which keeps the evaluation stack shallow
AStarStep4(st, end_grid, grid, gw, gh) ==
    AStarStep(AStarStep(AStarStep(AStarStep(st, end_grid, grid, gw, gh),
        end_grid, grid, gw, gh), end_grid, grid, gw, gh), end_grid, grid, gw, gh)

AStarStep16(st, end_grid, grid, gw, gh) ==
    AStarStep4(AStarStep4(AStarStep4(AStarStep4(st, end_grid, grid, gw, gh),
        end_grid, grid, gw, gh), end_grid, grid, gw, gh), end_grid, grid, gw, gh)

\* the state find_path enters the while loop with
AStarOpen(start_grid) ==
    [ open_set |-> { <<0, start_grid[1], start_grid[2]>> },
      open_set_hash |-> {start_grid},
      came_from |-> << >>,
      g_score |-> (start_grid :> 0),
      pops |-> 0, done |-> FALSE, found |-> FALSE ]

RECURSIVE AStarLoop(_, _, _, _, _)
\* the while loop, run to its exit
AStarLoop(st, end_grid, grid, gw, gh) ==
    IF st.done THEN st
    ELSE AStarLoop(AStarStep16(st, end_grid, grid, gw, gh), end_grid, grid, gw, gh)

\* the search of find_path from start_grid to end_grid, both valid and
\* unblocked: the final state of the loop
AStarSearch(start_grid, end_grid, grid, gw, gh) ==
    AStarLoop(AStarOpen(start_grid), end_grid, grid, gw, gh)

\* the cells from the goal back to the start, as came_from gives them
CellPath_unreversed(final, end_grid) ==
    IF final.found THEN reconstruct_path(final.came_from, end_grid)
    ELSE << >>

\* the cell path the search returns, << >> for no path
CellPath(final, end_grid) ==
    IF final.found THEN Reverse(reconstruct_path(final.came_from, end_grid))
    ELSE << >>

\* find_path without the test that the start and end cells are unoccupied
find_path_unchecked_cells(start, end, obs, gw, gh) ==
    Bind(grid_size * PosScale, LAMBDA cell :
    Bind(<<Trunc(start[1], cell), Trunc(start[2], cell)>>, LAMBDA start_grid :
    Bind(<<Trunc(end[1], cell), Trunc(end[2], cell)>>, LAMBDA end_grid :
    Bind(create_obstacle_grid(obs, gw, gh), LAMBDA grid :
        IF ~is_valid_position(start_grid, gw, gh)
           \/ ~is_valid_position(end_grid, gw, gh)
        THEN << >>
        ELSE Bind(CellPath(AStarSearch(start_grid, end_grid, grid, gw, gh),
                           end_grid), LAMBDA path :
               [ i \in 1..Len(path) |->
                   << path[i][1] * grid_size + (grid_size \div 2),
                      path[i][2] * grid_size + (grid_size \div 2) >> ])))))

\* find_path(start, end, obstacles) of a PathFinder with grid gw x gh; start
\* and end in 1/PosScale units, the waypoints returned in world units
find_path(start, end, obs, gw, gh) ==
    Bind(grid_size * PosScale, LAMBDA cell :
    Bind(<<Trunc(start[1], cell), Trunc(start[2], cell)>>, LAMBDA start_grid :
    Bind(<<Trunc(end[1], cell), Trunc(end[2], cell)>>, LAMBDA end_grid :
    Bind(create_obstacle_grid(obs, gw, gh), LAMBDA grid :
        IF ~is_valid_position(start_grid, gw, gh)
           \/ ~is_valid_position(end_grid, gw, gh)
        THEN << >>
        ELSE IF start_grid \in grid \/ end_grid \in grid
        THEN << >>
        ELSE Bind(CellPath(AStarSearch(start_grid, end_grid, grid, gw, gh),
                           end_grid), LAMBDA path :
               [ i \in 1..Len(path) |->
                   << path[i][1] * grid_size + (grid_size \div 2),
                      path[i][2] * grid_size + (grid_size \div 2) >> ])))))

-----------------------------------------------------------------------------
(* ParkingSimulation (parking.py): the world *)

NumSlots == 2 * parallel_count + 2 * perp_count

\* slot k of create_environment, in creation order: its spot when vacant
SlotSpot(k) ==
    IF k <= 2 * parallel_count
    THEN LET row == (k - 1) \div parallel_count
             i == (k - 1) % parallel_count
             spot_width == 100
             spot_height == 50
             start_x == 300
             y_pos == IF row = 0 THEN 150 ELSE WINDOW_HEIGHT - 200
         IN  [ rect |-> Rect(start_x + i * (spot_width + 20), y_pos,
                             spot_width, spot_height),
               type |-> "parallel", orientation |-> "horizontal" ]
    ELSE LET col == (k - 2 * parallel_count - 1) \div perp_count
             i == (k - 2 * parallel_count - 1) % perp_count
             spot_width == 60
             spot_height == 90
             start_y == 250
             x_pos == IF col = 0 THEN 300 ELSE WINDOW_WIDTH - 200
         IN  [ rect |-> Rect(x_pos, start_y + i * (spot_height + 20),
                             spot_width, spot_height),
               type |-> "perpendicular", orientation |-> "vertical" ]

\* slot k's red car when occupied
SlotObstacle(k) ==
    LET r == SlotSpot(k).rect
    IN  Rect(r.left, r.top, r.width - 10, r.height - 10)

SlotOrder == [ k \in 1..NumSlots |-> k ]

\* create_environment, `vacant` being the slots whose random draw was >= 0.7
create_environment(vacant) ==
    LET occ == SelectSeq(SlotOrder, LAMBDA k : k \notin vacant)
        vac == SelectSeq(SlotOrder, LAMBDA k : k \in vacant)
    IN  [ obstacles |-> [ j \in 1..Len(occ) |-> SlotObstacle(occ[j]) ],
          parking_spots |-> [ j \in 1..Len(vac) |-> SlotSpot(vac[j]) ] ]

\* the random draws the model explores
Worlds == { w \in SUBSET (1..NumSlots) : Cardinality(w) <= MaxVacant }

\* active_spot = None
NoneSpot == [ rect |-> Rect(0, 0, 0, 0), type |-> "none", orientation |-> "none" ]

-----------------------------------------------------------------------------
(* ParkingSimulation: planning *)

StatusReady == "Ready to start"
StatusReset == "Reset"
StatusExhausted == "No parking available after 3 attempts"
StatusNoValid == "No valid parking spots found"
StatusSuccess == "Successfully parked!"
StatusAttempting(n) ==
    "Attempting parking in spot " \o ToString(n) \o "/" \o ToString(max_attempts)
StatusFailed(n) ==
    "Parking attempt " \o ToString(n) \o " failed, trying new spot"

calculate_entry_point(spot) ==
    LET rect == spot.rect
    IN  IF spot.type = "parallel"
        THEN IF spot.orientation = "horizontal"
             THEN <<rect.left - 50, centery(rect)>>
             ELSE <<centerx(rect), rect.top - 50>>
        ELSE IF spot.type = "perpendicular"
        THEN IF spot.orientation = "horizontal"
             THEN <<centerx(rect), rect.top - 70>>
             ELSE <<rect.left - 70, centery(rect)>>
        ELSE <<centerx(rect), centery(rect)>>

add_parking_maneuver(entry_point, spot) ==
    LET rect == spot.rect
    IN  IF spot.type = "parallel"
        THEN IF spot.orientation = "horizontal"
             THEN << entry_point, <<rect.left + 30, centery(rect)>>,
                     <<centerx(rect), centery(rect)>> >>
             ELSE << entry_point, <<centerx(rect), rect.top + 30>>,
                     <<centerx(rect), centery(rect)>> >>
        ELSE IF spot.type = "perpendicular"
        THEN IF spot.orientation = "horizontal"
             THEN << entry_point, <<centerx(rect), rect.top + 30>>,
                     <<centerx(rect), centery(rect)>> >>
             ELSE << entry_point, <<rect.left + 30, centery(rect)>>,
                     <<centerx(rect), centery(rect)>> >>
        ELSE << entry_point >>

\* distance(vehicle_pos, spot_center) squared, in 1/GeoScale units
DistanceSq(v, spot) ==
    LET unit == PosScale \div GeoScale
        dx == centerx(spot.rect) * GeoScale - Trunc(v.x, unit)
        dy == centery(spot.rect) * GeoScale - Trunc(v.y, unit)
    IN  dx * dx + dy * dy

\* the loop `if dist < min_distance`: the index of the first spot at the least
\* distance, 0 when there is no spot
NearestIndex(v, spots) ==
    IF Len(spots) = 0 THEN 0
    ELSE CHOOSE i \in 1..Len(spots) :
           /\ \A j \in 1..Len(spots) : DistanceSq(v, spots[i]) <= DistanceSq(v, spots[j])
           /\ \A j \in 1..(i - 1) : DistanceSq(v, spots[j]) > DistanceSq(v, spots[i])

grid_width == WINDOW_WIDTH \div grid_size
grid_height == WINDOW_HEIGHT \div grid_size

\* find_parking_spot past its attempt guard, on the simulation record s (the
\* fields of ParkingSimulation, the vehicle, and the history fields)
select_and_plan(s) ==
    Bind(NearestIndex(s.vehicle, s.parking_spots), LAMBDA n :
      IF n = 0
      THEN [ s EXCEPT !.status = StatusNoValid ]
      ELSE
        Bind(s.parking_spots[n], LAMBDA nearest_spot :
        Bind(calculate_entry_point(nearest_spot), LAMBDA entry_point :
        Bind(SelectSeq(s.parking_spots, LAMBDA sp : sp # nearest_spot),
             LAMBDA others :
        Bind(s.obstacles \o [ j \in 1..Len(others) |-> others[j].rect ],
             LAMBDA plan_obstacles :
        Bind(find_path(<<s.vehicle.x, s.vehicle.y>>,
                       <<entry_point[1] * PosScale, entry_point[2] * PosScale>>,
                       plan_obstacles, grid_width, grid_height), LAMBDA path :
        Bind([ s EXCEPT
                 !.active_spot = nearest_spot,
                 !.current_attempt = s.current_attempt + 1,
                 !.plan_calls = s.plan_calls + 1,
                 !.attempts = Append(s.attempts,
                                     [ spot |-> nearest_spot,
                                       routed |-> Len(path) > 0 ]) ],
             LAMBDA selected :
          IF Len(path) > 0
          THEN Bind(add_parking_maneuver(path[Len(path)], nearest_spot),
                    LAMBDA full_path :
                 [ selected EXCEPT
                     !.vehicle = [ set_path(s.vehicle, full_path)
                                     EXCEPT !.state = "parking" ],
                     !.set_path_in = s.set_path_in \cup {s.vehicle.state},
                     !.status = StatusAttempting(s.current_attempt + 1) ])
          ELSE [ selected EXCEPT !.status = StatusNoValid ])))))))

\* a find_parking_spot that has lost its attempt guard
find_parking_spot_unguarded(s) ==
    select_and_plan([ s EXCEPT !.find_calls = s.find_calls + 1 ])

find_parking_spot(s) ==
    IF s.current_attempt >= max_attempts
    THEN [ s EXCEPT !.find_calls = s.find_calls + 1, !.status = StatusExhausted ]
    ELSE select_and_plan([ s EXCEPT !.find_calls = s.find_calls + 1 ])

\* an update that reports every arrival at idle as a success
observe_transition_any_idle(ticked, previous_state) ==
    IF previous_state # ticked.vehicle.state /\ ticked.vehicle.state = "idle"
    THEN [ ticked EXCEPT !.status = StatusSuccess ]
    ELSE ticked

\* a classification whose branch of the completed return leaves the vehicle
\* idle behind its find_parking_spot, so that the retry check follows it
observe_transition_leaves_idle(ticked, previous_state) ==
    IF previous_state # ticked.vehicle.state
    THEN IF ticked.vehicle.state = "idle" /\ previous_state = "parking"
         THEN [ ticked EXCEPT !.status = StatusSuccess ]
         ELSE IF ticked.vehicle.state = "idle" /\ previous_state = "returning"
         THEN [ find_parking_spot(
                  [ ticked EXCEPT !.status = StatusFailed(ticked.current_attempt) ])
                EXCEPT !.vehicle.state = "idle" ]
         ELSE ticked
    ELSE ticked

\* update(), `if previous_state != self.vehicle.state`: the classification of
\* the vehicle's transition
observe_transition(ticked, previous_state) ==
    IF previous_state # ticked.vehicle.state
    THEN IF ticked.vehicle.state = "idle" /\ previous_state = "parking"
         THEN [ ticked EXCEPT !.status = StatusSuccess ]
         ELSE IF ticked.vehicle.state = "idle" /\ previous_state = "returning"
         THEN find_parking_spot(
                [ ticked EXCEPT !.status = StatusFailed(ticked.current_attempt) ])
         ELSE ticked
    ELSE ticked

\* an update whose retry check has lost `self.vehicle.state == "idle"`
update_retry_unchecked(s) ==
    Bind(observe_transition(
           [ s EXCEPT !.vehicle = vehicle_update(s.vehicle, s.obstacles) ],
           s.vehicle.state), LAMBDA observed :
        IF /\ observed.current_attempt < max_attempts
           /\ observed.status # StatusSuccess
        THEN find_parking_spot(observed)
        ELSE observed)

\* ParkingSimulation.update on the simulation record
update(s) ==
    Bind(observe_transition(
           [ s EXCEPT !.vehicle = vehicle_update(s.vehicle, s.obstacles) ],
           s.vehicle.state), LAMBDA observed :
        IF /\ observed.vehicle.state = "idle"
           /\ observed.current_attempt < max_attempts
           /\ observed.status # StatusSuccess
        THEN find_parking_spot(observed)
        ELSE observed)

\* ParkingSimulation.__init__(WINDOW_WIDTH, WINDOW_HEIGHT) in world `vacant`
construct(vacant) ==
    LET env == create_environment(vacant)
    IN  find_parking_spot(
          [ vehicle |-> Vehicle(100, WINDOW_HEIGHT \div 2, 0),
            obstacles |-> env.obstacles,
            parking_spots |-> env.parking_spots,
            current_attempt |-> 0,
            status |-> StatusReady,
            active_spot |-> NoneSpot,
            attempts |-> << >>,
            find_calls |-> 0, plan_calls |-> 0, set_path_in |-> {} ])

\* construct(w) for every world (merged with the empty function, which has
\* TLC tabulate it once instead of evaluating construct at each use)
Constructed == [ w \in Worlds |-> construct(w) ] @@ << >>

\* ParkingSimulation.reset() drawing world `vacant`.  vehicle.reset() restores
\* every field the constructor set, and find_parking_spot overwrites the
\* status on each of its paths, so when the reset vehicle equals the
\* constructed one the outcome is that of the constructor in the same world.
reset(s, vacant) ==
    LET env == create_environment(vacant)
        fresh == [ s EXCEPT !.vehicle = vehicle_reset(s.vehicle),
                            !.obstacles = env.obstacles,
                            !.parking_spots = env.parking_spots,
                            !.current_attempt = 0,
                            !.status = StatusReset,
                            !.active_spot = NoneSpot,
                            !.attempts = << >>,
                            !.find_calls = 0, !.plan_calls = 0,
                            !.set_path_in = {} ]
    IN  IF vehicle_reset(s.vehicle) = Vehicle(100, WINDOW_HEIGHT \div 2, 0)
        THEN Constructed[vacant]
        ELSE find_parking_spot(fresh)

-----------------------------------------------------------------------------
(* The state machine *)

Sim == [ vehicle |-> vehicle, obstacles |-> obstacles,
         parking_spots |-> parking_spots, current_attempt |-> current_attempt,
         status |-> status, active_spot |-> active_spot, attempts |-> attempts,
         find_calls |-> find_calls, plan_calls |-> plan_calls,
         set_path_in |-> set_path_in ]

\* no function is called on its own
NoProbe == [ op |-> "none" ]

\* the variables take the fields of s
Becomes(s, op) ==
    /\ vehicle' = s.vehicle
    /\ obstacles' = s.obstacles
    /\ parking_spots' = s.parking_spots
    /\ current_attempt' = s.current_attempt
    /\ status' = s.status
    /\ active_spot' = s.active_spot
    /\ attempts' = s.attempts
    /\ find_calls' = s.find_calls
    /\ plan_calls' = s.plan_calls
    /\ set_path_in' = s.set_path_in
    /\ last_op' = op
    /\ probe' = probe

Init ==
    \E w \in Worlds :
      LET s == Constructed[w]
      IN  /\ vehicle = s.vehicle
          /\ obstacles = s.obstacles
          /\ parking_spots = s.parking_spots
          /\ current_attempt = s.current_attempt
          /\ status = s.status
          /\ active_spot = s.active_spot
          /\ attempts = s.attempts
          /\ find_calls = s.find_calls
          /\ plan_calls = s.plan_calls
          /\ set_path_in = s.set_path_in
          /\ last_op = "init"
          /\ frame = 0
          /\ probe = NoProbe

\* the main loop runs one more frame
Frame == frame' = 1 - frame

Update ==
    /\ Becomes(update([ Sim EXCEPT !.find_calls = 0, !.plan_calls = 0,
                                   !.set_path_in = {} ]), "update")
    /\ Frame

Reset ==
    /\ \E w \in Worlds : Becomes(reset(Sim, w), "reset")
    /\ frame' = 0

Next == Update \/ Reset

Spec == Init /\ [][Next]_vars

\* one run, no reset: the main loop keeps running frames, and every frame is
\* an update() (each Update step is a Frame step, and Frame is always enabled)
RunSpec == Init /\ [][Update]_vars /\ WF_frame(Frame)


-----------------------------------------------------------------------------
(* The PathFinder on its own: one find_path call per step, on a grid of      *)
(* GridSide x GridSide cells that holds no obstacle or one.                  *)

\* the simulation is constructed and left alone
Standby ==
    Bind(Constructed[{}], LAMBDA s :
        /\ vehicle = s.vehicle
        /\ obstacles = s.obstacles
        /\ parking_spots = s.parking_spots
        /\ current_attempt = s.current_attempt
        /\ status = s.status
        /\ active_spot = s.active_spot
        /\ attempts = s.attempts
        /\ find_calls = s.find_calls
        /\ plan_calls = s.plan_calls
        /\ set_path_in = s.set_path_in
        /\ last_op = "init"
        /\ frame = 0)

Idle == UNCHANGED <<vehicle, obstacles, parking_spots, current_attempt,
                    status, active_spot, attempts, last_op, frame,
                    find_calls, plan_calls, set_path_in>>

\* the centre of cell c of the grid, in world units
CellCentre(c) == c * grid_size + grid_size \div 2

\* an obstacle that reaches into the nx x ny cells from cell <<cx, cy>> on
SpanObstacle(cx, cy, nx, ny) ==
    Rect(cx * grid_size + grid_size \div 4, cy * grid_size + grid_size \div 4,
         nx * grid_size - grid_size \div 2, ny * grid_size - grid_size \div 2)

\* the obstacle lists of the calls: no obstacle, an obstacle inside one cell,
\* or a bar whose margin reaches from one edge of the grid to the other
ObstacleLists ==
    { << >> }
    \cup { <<SpanObstacle(cx, cy, 1, 1)>> :
             cx \in 0..(GridSide - 1), cy \in 0..(GridSide - 1) }
    \cup { <<SpanObstacle(cx, 1, 1, GridSide - 2)>> : cx \in 0..(GridSide - 1) }
    \cup { <<SpanObstacle(1, cy, GridSide - 2, 1)>> : cy \in 0..(GridSide - 1) }

\* the coordinates of the calls: every cell centre, and one point off the
\* grid on either side
Coordinates == { CellCentre(c) : c \in 0..(GridSide - 1) }
                   \cup { 0 - CellCentre(1), CellCentre(GridSide) }

PathInit ==
    /\ Standby
    /\ \E obs \in ObstacleLists :
         probe = [ op |-> "PathFinder", obstacles |-> obs ]

\* one call of find_path on the PathFinder
FindPath ==
    /\ probe.op = "PathFinder"
    /\ \E sx \in Coordinates, sy \in Coordinates,
          ex \in Coordinates, ey \in Coordinates :
         probe' = [ op |-> "find_path", obstacles |-> probe.obstacles,
                    start |-> <<sx, sy>>, end |-> <<ex, ey>>,
                    path |-> find_path(<<sx * PosScale, sy * PosScale>>,
                                       <<ex * PosScale, ey * PosScale>>,
                                       probe.obstacles, GridSide, GridSide) ]
    /\ Idle

PathSpec == PathInit /\ [][FindPath]_vars

\* the cell a coordinate of a call lies in
CellOf(point) ==
    << Trunc(point[1] * PosScale, grid_size * PosScale),
       Trunc(point[2] * PosScale, grid_size * PosScale) >>

\* the cell a waypoint is the centre of
WaypointCell(w) == << w[1] \div grid_size, w[2] \div grid_size >>

\* the cells of the grid, and those the obstacles leave free
GridCells == (0..(GridSide - 1)) \X (0..(GridSide - 1))
FreeCells(obs) == GridCells \ create_obstacle_grid(obs, GridSide, GridSide)

\* two different cells that touch by a side or a corner
Adjacent(a, b) == a # b /\ Abs(a[1] - b[1]) <= 1 /\ Abs(a[2] - b[2]) <= 1

\* the cost of the step between two adjacent cells
StepCost(a, b) ==
    IF a[1] # b[1] /\ a[2] # b[2] THEN diagonal_cost ELSE CostScale

\* the cost of a path of waypoints: the sum of its steps
PathCost(path) ==
    CostScale * Cardinality({ i \in 1..(Len(path) - 1) :
                                 StepCost(path[i], path[i + 1]) = CostScale })
    + diagonal_cost * Cardinality({ i \in 1..(Len(path) - 1) :
                                 StepCost(path[i], path[i + 1]) # CostScale })

Least(S) == CHOOSE m \in S : \A o \in S : m <= o

RECURSIVE Cheapest(_, _)
\* the reference search: cost[c] is the least cost found so far of a path
\* from the start to c through free cells; every round extends every path
\* found by every possible step, until no cost improves and no cell is new
Cheapest(cost, free) ==
    Bind([ c \in { n \in free : \E a \in DOMAIN cost : a = n \/ Adjacent(a, n) }
             |-> Least( { cost[a] + StepCost(a, c) :
                            a \in { b \in DOMAIN cost : Adjacent(b, c) } }
                        \cup { cost[a] : a \in DOMAIN cost \cap {c} } ) ] @@ << >>,
         LAMBDA next : IF next = cost THEN cost ELSE Cheapest(next, free))

\* the reference costs of every obstacle list: from every free cell, to every
\* cell that can be reached from it
reference_costs ==
    [ obs \in ObstacleLists |->
        [ c \in FreeCells(obs) |-> Cheapest(c :> 0, FreeCells(obs)) ] @@ << >> ]
    @@ << >>

-----------------------------------------------------------------------------
(* The search of find_path, one iteration of its while loop per step: the    *)
(* call converts and tests the two points, every Pop is one                  *)
(* `while open_set` iteration, and Return leaves the loop with the path or   *)
(* the empty list.  probe.popped collects the cells popped so far.           *)

\* the obstacle lists of the searches: no obstacle, or one obstacle at the
\* left edge and one two cells to its right and half a grid above or below
SearchObstacleLists ==
    { << >> }
    \cup { << SpanObstacle(0, cy, 1, 1), SpanObstacle(2, dy, 1, 1) >> :
             <<cy, dy>> \in { c \in (0..(GridSide - 1)) \X (0..(GridSide - 1)) :
                               Abs(c[1] - c[2]) = GridSide \div 2 } }

\* the iterations of the loop the model runs in one search: twice the number
\* of cells
MaxPops == 2 * GridSide * GridSide

SearchInit ==
    /\ Standby
    /\ \E obs \in SearchObstacleLists :
         probe = [ op |-> "PathFinder", obstacles |-> obs ]

SearchCall ==
    /\ probe.op = "PathFinder"
    /\ \E sx \in Coordinates, sy \in Coordinates,
          ex \in Coordinates, ey \in Coordinates :
         Bind(CellOf(<<sx, sy>>), LAMBDA start_grid :
         Bind(CellOf(<<ex, ey>>), LAMBDA end_grid :
         Bind(create_obstacle_grid(probe.obstacles, GridSide, GridSide),
              LAMBDA grid :
           IF \/ ~is_valid_position(start_grid, GridSide, GridSide)
              \/ ~is_valid_position(end_grid, GridSide, GridSide)
              \/ start_grid \in grid \/ end_grid \in grid
           THEN probe' = [ op |-> "a_star_return", obstacles |-> probe.obstacles,
                           end_grid |-> end_grid,
                           st |-> [ AStarOpen(start_grid) EXCEPT !.done = TRUE ],
                           popped |-> {}, reinserted |-> FALSE,
                           path |-> << >> ]
           ELSE probe' = [ op |-> "a_star", obstacles |-> probe.obstacles,
                           end_grid |-> end_grid,
                           st |-> AStarOpen(start_grid),
                           popped |-> {}, reinserted |-> FALSE,
                           path |-> << >> ])))
    /\ Idle

\* a statement of the search runs: `frame` is the parity of the statements
\* run, and the search has one to run while it is in the loop and below the
\* model's bound, or past the loop and about to return
SearchRuns ==
    /\ probe.op = "a_star"
    /\ probe.st.done \/ probe.st.pops < MaxPops
    /\ frame' = 1 - frame

Working == UNCHANGED <<vehicle, obstacles, parking_spots, current_attempt,
                       status, active_spot, attempts, last_op,
                       find_calls, plan_calls, set_path_in>>

\* an iteration that reads the least entry of the heap and leaves it there
SearchPop_keeps_entry ==
    /\ probe.op = "a_star"
    /\ ~probe.st.done
    /\ probe.st.pops < MaxPops
    /\ probe' =
         [ probe EXCEPT
             !.st = [ AStarStep(probe.st, probe.end_grid,
                                create_obstacle_grid(probe.obstacles,
                                                     GridSide, GridSide),
                                GridSide, GridSide)
                      EXCEPT !.open_set = @ \cup probe.st.open_set,
                             !.open_set_hash = @ \cup probe.st.open_set_hash ],
             !.popped = IF probe.st.open_set = {} THEN @
                        ELSE @ \cup { << HeapMin(probe.st.open_set)[2],
                                        HeapMin(probe.st.open_set)[3] >> },
             !.reinserted =
                 \/ @
                 \/ /\ probe.st.open_set # {}
                    /\ << HeapMin(probe.st.open_set)[2],
                          HeapMin(probe.st.open_set)[3] >> \in probe.popped ]
    /\ SearchRuns
    /\ Working

\* one iteration of the while loop (or its exit test on the empty open set)
SearchPop ==
    /\ probe.op = "a_star"
    /\ ~probe.st.done
    /\ probe.st.pops < MaxPops
    /\ probe' =
         [ probe EXCEPT
             !.st = AStarStep(probe.st, probe.end_grid,
                              create_obstacle_grid(probe.obstacles,
                                                   GridSide, GridSide),
                              GridSide, GridSide),
             !.popped = IF probe.st.open_set = {} THEN @
                        ELSE @ \cup { << HeapMin(probe.st.open_set)[2],
                                        HeapMin(probe.st.open_set)[3] >> },
             !.reinserted =
                 \/ @
                 \/ /\ probe.st.open_set # {}
                    /\ << HeapMin(probe.st.open_set)[2],
                          HeapMin(probe.st.open_set)[3] >> \in probe.popped ]
    /\ SearchRuns
    /\ Working

\* the return: the waypoints of the path, or the empty list
SearchReturn ==
    /\ probe.op = "a_star"
    /\ probe.st.done
    /\ probe' =
         [ probe EXCEPT
             !.op = "a_star_return",
             !.path = Bind(CellPath(probe.st, probe.end_grid), LAMBDA path :
                        [ i \in 1..Len(path) |->
                            << path[i][1] * grid_size + (grid_size \div 2),
                               path[i][2] * grid_size + (grid_size \div 2) >> ]) ]
    /\ SearchRuns
    /\ Working

SearchNext == SearchCall \/ SearchPop \/ SearchReturn

\* the loop is sequential code: while an iteration or the return statement
\* is due, it runs (every SearchPop and SearchReturn step is a SearchRuns
\* step)
SearchSpec ==
    /\ SearchInit
    /\ [][SearchNext]_vars
    /\ WF_frame(SearchRuns)

-----------------------------------------------------------------------------
(* The Vehicle on its own: constructed with some start heading next to one   *)
(* obstacle, then ticked and commanded from outside.                         *)

\* the headings a Vehicle is constructed with, and those move_to is given
StartHeadings == { 0, 400 }
TargetHeadings == { 45, 450, -90 }

\* the targets of move_to
Targets == { <<200, WINDOW_HEIGHT \div 2>>, <<110, WINDOW_HEIGHT \div 2 + 20>> }

\* the paths of set_path: one that leads through the obstacle, one that does
\* not
Paths ==
    { << <<260, WINDOW_HEIGHT \div 2>> >>,
      << <<100, WINDOW_HEIGHT \div 2 - 20>>, <<120, WINDOW_HEIGHT \div 2 - 30>> >> }

VehicleInit ==
    /\ \E angle0 \in StartHeadings :
         vehicle = Vehicle(100, WINDOW_HEIGHT \div 2, angle0)
    /\ obstacles = << Rect(160, WINDOW_HEIGHT \div 2 - 20, 40, 40) >>
    /\ parking_spots = << >>
    /\ current_attempt = 0
    /\ status = StatusReady
    /\ active_spot = NoneSpot
    /\ attempts = << >>
    /\ find_calls = 0
    /\ plan_calls = 0
    /\ set_path_in = {}
    /\ last_op = "init"
    /\ frame = 0
    /\ probe = [ op |-> "Vehicle", commands |-> 0 ]

\* a call on the vehicle leaves the rest as it is
Commanded(v, op, n) ==
    /\ vehicle' = v
    /\ last_op' = op
    /\ probe' = [ probe EXCEPT !.commands = n ]
    /\ UNCHANGED <<obstacles, parking_spots, current_attempt, status,
                   active_spot, attempts, frame, find_calls, plan_calls,
                   set_path_in>>

\* vehicle.update(obstacles)
Tick == Commanded(vehicle_update(vehicle, obstacles), "update", probe.commands)

\* vehicle.move_to(x, y) and vehicle.move_to(x, y, angle)
MoveTo ==
    /\ probe.commands < MaxCommands
    /\ \E t \in Targets :
         \/ Commanded(move_to(vehicle, t[1], t[2], FALSE, 0), "move_to",
                      probe.commands + 1)
         \/ \E a \in TargetHeadings :
              Commanded(move_to(vehicle, t[1], t[2], TRUE, a), "move_to",
                        probe.commands + 1)

\* vehicle.set_path(path, n); vehicle.state = "parking", as the orchestrator
\* issues them
Park ==
    /\ probe.commands < MaxCommands
    /\ \E path \in Paths :
         Commanded([ set_path(vehicle, path) EXCEPT !.state = "parking" ],
                   "set_path", probe.commands + 1)

\* vehicle.reset()
VehicleReset == Commanded(vehicle_reset(vehicle), "reset", 0)

VehicleNext == Tick \/ MoveTo \/ Park \/ VehicleReset

VehicleSpec == VehicleInit /\ [][VehicleNext]_vars

-----------------------------------------------------------------------------
(* The collision test on its own: two vehicles at headings that are          *)
(* multiples of 90 degrees, so that the footprint of each is also a Rect.    *)

\* the pygame.Rect that covers the footprint of v (v at a multiple of 90)
FootprintRect(v) ==
    Bind(get_corners(v), LAMBDA c :
    Bind(Least({ c[i][1] : i \in 1..4 }) \div GeoScale, LAMBDA x0 :
    Bind(Least({ c[i][2] : i \in 1..4 }) \div GeoScale, LAMBDA y0 :
        Rect(x0, y0,
             Least({ 0 - c[i][1] : i \in 1..4 }) \div (0 - GeoScale) - x0,
             Least({ 0 - c[i][2] : i \in 1..4 }) \div (0 - GeoScale) - y0))))

\* the headings of the two vehicles, and where the second one stands
\* relative to the first
RightAngles == { 0, 90, 180, 270 }
Offsets == { 5 * k : k \in -14..14 }

CollisionInit ==
    /\ Standby
    /\ \E a \in RightAngles :
         probe = [ op |-> "Vehicle", A |-> Vehicle(200, 200, a) ]

\* the test made both ways round: A's corners against B's Rect, and B's
\* corners against A's Rect
CheckCollision ==
    /\ probe.op = "Vehicle"
    /\ \E b \in RightAngles, dx \in Offsets, dy \in Offsets :
         Bind(Vehicle(200 + dx, 200 + dy, b), LAMBDA B :
           probe' = [ op |-> "check_rectangle_collision",
                      A |-> probe.A, B |-> B,
                      A_hits_B |-> check_rectangle_collision(
                                       get_corners(probe.A), FootprintRect(B)),
                      B_hits_A |-> check_rectangle_collision(
                                       get_corners(B), FootprintRect(probe.A)) ])
    /\ Idle

CollisionSpec == CollisionInit /\ [][CheckCollision]_vars

-----------------------------------------------------------------------------
(* main.py: ParkingSimulation.find_nearest_parking_spot on its own *)

\* generate_parking_spots: parallel spots right and left, perpendicular spots
\* at the bottom and at the top
generate_parking_spots ==
    [ i \in 1..5 |-> [ rect |-> Rect(800, 100 + (i - 1) * 120,
                                     CAR_LENGTH + 20, CAR_WIDTH + 20),
                       type |-> "PARALLEL" ] ]
    \o [ i \in 1..5 |-> [ rect |-> Rect(200, 100 + (i - 1) * 120,
                                        CAR_LENGTH + 20, CAR_WIDTH + 20),
                          type |-> "PARALLEL" ] ]
    \o [ i \in 1..8 |-> [ rect |-> Rect(300 + (i - 1) * 80, 600,
                                        CAR_WIDTH + 20, CAR_LENGTH + 20),
                          type |-> "PERPENDICULAR" ] ]
    \o [ i \in 1..8 |-> [ rect |-> Rect(300 + (i - 1) * 80, 100,
                                        CAR_WIDTH + 20, CAR_LENGTH + 20),
                          type |-> "PERPENDICULAR" ] ]

\* find_nearest_parking_spot returns None
None == [ rect |-> Rect(0, 0, 0, 0), type |-> "None" ]

\* the square of `distance`, the distance from the car to the spot's centre.
\* The code sorts by math.sqrt of this sum; the square root is increasing, and
\* on sums of integer squares of this size different sums have different
\* float roots, so the order by the sum is the order by the root.
distance_squared(car_x, car_y, spot) ==
    (car_x - centerx(spot.rect)) * (car_x - centerx(spot.rect))
    + (car_y - centery(spot.rect)) * (car_y - centery(spot.rect))

\* the loop that fills available_spots, without the test of failed_spots
available_spots_with_failed(spots, parked_cars, failed_spots, car_x, car_y) ==
    Bind(SelectSeq(spots, LAMBDA spot :
             ~(\E c \in 1..Len(parked_cars) : parked_cars[c].rect = spot.rect)),
         LAMBDA kept :
           [ k \in 1..Len(kept) |->
               << kept[k], distance_squared(car_x, car_y, kept[k]) >> ])

\* the loop that fills available_spots with (spot, distance) pairs
available_spots(spots, parked_cars, failed_spots, car_x, car_y) ==
    Bind(SelectSeq(spots, LAMBDA spot :
             ~( \/ \E c \in 1..Len(parked_cars) : parked_cars[c].rect = spot.rect
                \/ \E f \in 1..Len(failed_spots) : failed_spots[f] = spot )),
         LAMBDA kept :
           [ k \in 1..Len(kept) |->
               << kept[k], distance_squared(car_x, car_y, kept[k]) >> ])

\* a pair put into a sorted list, behind the pairs that are not farther
Insert(sorted, e) ==
    Bind(Cardinality({ j \in 1..Len(sorted) : sorted[j][2] <= e[2] }),
         LAMBDA k : SubSeq(sorted, 1, k) \o <<e>>
                       \o SubSeq(sorted, k + 1, Len(sorted)))

RECURSIVE sort_by_distance(_)
\* available_spots.sort(key=lambda x: x[1]): ascending, and stable
sort_by_distance(l) ==
    IF Len(l) = 0 THEN << >>
    ELSE Insert(sort_by_distance(SubSeq(l, 1, Len(l) - 1)), l[Len(l)])

\* a find_nearest_parking_spot that always takes the nearest spot
find_nearest_parking_spot_first(spots, parked_cars, failed_spots, car_x, car_y, attempt_count) ==
    Bind(sort_by_distance(available_spots(spots, parked_cars, failed_spots,
                                          car_x, car_y)),
         LAMBDA sorted :
           IF Len(sorted) = 0 THEN None
           ELSE sorted[1][1])

find_nearest_parking_spot(spots, parked_cars, failed_spots, car_x, car_y, attempt_count) ==
    Bind(sort_by_distance(available_spots(spots, parked_cars, failed_spots,
                                          car_x, car_y)),
         LAMBDA sorted :
           IF Len(sorted) = 0 THEN None
           ELSE sorted[Min(attempt_count, Len(sorted) - 1) + 1][1])

RECURSIVE FewOf(_, _)
\* the subsets of S of at most n elements
FewOf(S, n) ==
    IF n = 0 THEN { {} }
    ELSE FewOf(S, n - 1)
         \cup { A \cup {e} : A \in FewOf(S, n - 1), e \in S }

\* the spots with the numbers in K, in the order of the list of spots
SpotsOf(K) ==
    SelectSeq(generate_parking_spots,
              LAMBDA spot : \E k \in K : generate_parking_spots[k] = spot)

\* generate_parked_cars: a car on every spot but those with the numbers in K
ParkedExcept(K) == SpotsOf((1..Len(generate_parking_spots)) \ K)

\* the numbers of the spots no car is parked on
Unoccupied(parked_cars) ==
    { k \in 1..Len(generate_parking_spots) :
        \A c \in 1..Len(parked_cars) :
            parked_cars[c].rect # generate_parking_spots[k].rect }

\* where the car is when the spot is looked for: at its start, at a point
\* as far from one spot as from the next, and among the spots
CarPositions ==
    { <<100, WINDOW_HEIGHT \div 2>>, <<100, WINDOW_HEIGHT \div 2 + 20>>,
      <<WINDOW_WIDTH \div 2, WINDOW_HEIGHT \div 2>> }

NearestInit ==
    /\ Standby
    /\ \E K \in FewOf(1..Len(generate_parking_spots), MaxFree) :
         probe = [ op |-> "ParkingSimulation", parked_cars |-> ParkedExcept(K) ]

\* one call of find_nearest_parking_spot, the car having failed at some of
\* the unoccupied spots
FindNearest ==
    /\ probe.op = "ParkingSimulation"
    /\ \E F \in SUBSET Unoccupied(probe.parked_cars), pos \in CarPositions,
          n \in 0..(MaxFree + 1) :
         probe' = [ op |-> "find_nearest_parking_spot",
                    parked_cars |-> probe.parked_cars,
                    failed_spots |-> SpotsOf(F),
                    car_x |-> pos[1], car_y |-> pos[2],
                    attempt_count |-> n,
                    result |-> find_nearest_parking_spot(
                                   generate_parking_spots, probe.parked_cars,
                                   SpotsOf(F), pos[1], pos[2], n) ]
    /\ Idle

NearestSpec == NearestInit /\ [][FindNearest]_vars

-----------------------------------------------------------------------------
(* MainSpec: main.py's ParkingSimulation.run, one frame at a time.  The    *)
(* simulation is the record `probe`: the car, the parked cars, `paused`    *)
(* and the attribute parking_phase.  The window-close event only ends the  *)
(* loop, and path_points and last_route are only drawn: they are left out. *)

\* the car's angles are kept in 1/AngleScale degree, its x and y in
\* 1/TrigScale pixel
AngleScale == 1000

\* TrigScale * cos(a / AngleScale degrees): the table, interpolated
CosAt(a) ==
    Bind(a % (360 * AngleScale), LAMBDA r :
      Bind(r \div AngleScale, LAMBDA d :
        Cos(d) + (((Cos(d + 1) - Cos(d)) * (r % AngleScale)) \div AngleScale)))

\* TrigScale * sin(a / AngleScale degrees)
SinAt(a) == CosAt(a - 90 * AngleScale)

\* the angle of the vector (ax, ay), 0 <= ay <= ax and 0 < ax, in
\* 1/AngleScale degree: the whole degree from the table, the fraction by the
\* sines of the angles to the two neighbouring whole degrees
ArcTanOctant(ax, ay) ==
    Bind(CHOOSE k \in 0..45 :
             /\ Sin(k) * ax <= ay * Cos(k)
             /\ \A j \in (k + 1)..45 : Sin(j) * ax > ay * Cos(j),
         LAMBDA k :
           IF k = 45 THEN 45 * AngleScale
           ELSE Bind(<< ay * Cos(k) - ax * Sin(k),
                        Max(0, ax * Sin(k + 1) - ay * Cos(k + 1)) >>,
                     LAMBDA gh :
                       Bind(((gh[1] + gh[2]) \div 1048576) + 1, LAMBDA q :
                         IF (gh[1] \div q) + (gh[2] \div q) = 0
                         THEN k * AngleScale
                         ELSE k * AngleScale
                              + (((gh[1] \div q) * AngleScale)
                                   \div ((gh[1] \div q) + (gh[2] \div q))))))

\* math.degrees(math.atan2(y, x)), in 1/AngleScale degree, in (-180, 180]
degrees_atan2(y, x) ==
    Bind(IF Abs(y) <= Abs(x) THEN ArcTanOctant(Abs(x), Abs(y))
         ELSE 90 * AngleScale - ArcTanOctant(Abs(y), Abs(x)),
         LAMBDA t :
           IF x >= 0 /\ y >= 0 THEN t
           ELSE IF x < 0 /\ y >= 0 THEN 180 * AngleScale - t
           ELSE IF x < 0 THEN t - 180 * AngleScale
           ELSE -t)

\* AutonomousCar.__init__
AutonomousCar(x0, y0) ==
    [ x |-> x0 * TrigScale, y |-> y0 * TrigScale, angle |-> 0, speed |-> 0,
      steering_angle |-> 0, state |-> "SEARCHING", attempt_count |-> 0,
      target_spot |-> None, failed_spots |-> << >>,
      approach_side |-> "right" ]

\* AutonomousCar.reset_position
reset_position(car) ==
    [ car EXCEPT !.x = 100 * TrigScale,
                 !.y = (WINDOW_HEIGHT \div 2) * TrigScale,
                 !.angle = 0,
                 !.approach_side = IF @ = "right" THEN "left" ELSE "right" ]

\* AutonomousCar.move
move(car) ==
    IF car.state = "SEARCHING" \/ car.state = "PARKING"
    THEN [ car EXCEPT !.x = @ + CosAt(car.angle) * car.speed,
                      !.y = @ - SinAt(car.angle) * car.speed,
                      !.angle = @ + car.steering_angle ]
    ELSE car

\* ParkingSimulation.__init__ with the cars generate_parked_cars has drawn;
\* parking_phase = 0 stands for a simulation without the attribute
ParkingSimulation(parked) ==
    [ op |-> "ParkingSimulation", car |-> AutonomousCar(100, 400),
      parked_cars |-> parked, paused |-> TRUE, parking_phase |-> 0 ]

\* ParkingSimulation.check_collision
check_collision(sim) ==
    Bind(Rect(Trunc(sim.car.x - (CAR_WIDTH \div 2) * TrigScale, TrigScale),
              Trunc(sim.car.y - (CAR_LENGTH \div 2) * TrigScale, TrigScale),
              CAR_WIDTH, CAR_LENGTH),
         LAMBDA car_rect :
           \/ \E c \in 1..Len(sim.parked_cars) :
                 /\ car_rect.left < right(sim.parked_cars[c].rect)
                 /\ sim.parked_cars[c].rect.left < right(car_rect)
                 /\ car_rect.top < bottom(sim.parked_cars[c].rect)
                 /\ sim.parked_cars[c].rect.top < bottom(car_rect)
           \/ sim.car.x < 0 \/ sim.car.x > WINDOW_WIDTH * TrigScale
           \/ sim.car.y < 0 \/ sim.car.y > WINDOW_HEIGHT * TrigScale)

\* ParkingSimulation.reset_simulation, generate_parked_cars drawing `parked`;
\* the attribute parking_phase is not touched
reset_simulation(sim, parked) ==
    [ sim EXCEPT !.car = AutonomousCar(100, 400), !.paused = TRUE,
                 !.parked_cars = parked ]

\* ParkingSimulation.generate_approach_path: << approach_x, approach_y >>
generate_approach_path(sim, target_spot) ==
    IF target_spot.type = "PARALLEL"
    THEN IF sim.car.approach_side = "right"
         THEN << target_spot.rect.left - 100, target_spot.rect.top - 50 >>
         ELSE << target_spot.rect.left - 100, target_spot.rect.top + 50 >>
    ELSE << target_spot.rect.left
              - (IF sim.car.attempt_count % 2 = 0 THEN 150 ELSE 200),
            target_spot.rect.top >>

\* the branch of a phase that is not yet within 5 of (tx, ty): the car gets
\* `speed`, and steers by gain/100 of angle_diff, at most by `limit` degrees
SteerTo(sim, tx, ty, speed, gain, limit) ==
    Bind(Direction(tx * TrigScale - sim.car.x, -(ty * TrigScale - sim.car.y)),
         LAMBDA d :
           Bind((degrees_atan2(d[2], d[1]) - sim.car.angle) % (360 * AngleScale),
                LAMBDA angle_diff :
                  [ sim EXCEPT !.car.speed = speed,
                               !.car.steering_angle =
                                   Min(Max((angle_diff * gain) \div 100,
                                           -limit * AngleScale),
                                       limit * AngleScale) ]))

\* abs(dx) > 5 or abs(dy) > 5, for dx and dy from the car to (tx, ty)
Away(sim, tx, ty) ==
    \/ Abs(tx * TrigScale - sim.car.x) > 5 * TrigScale
    \/ Abs(ty * TrigScale - sim.car.y) > 5 * TrigScale

\* the two phases, after parking_phase has been created
parking_phases(sim) ==
    IF sim.parking_phase = 1
    THEN Bind(generate_approach_path(sim, sim.car.target_spot), LAMBDA p :
           IF Away(sim, p[1], p[2]) THEN SteerTo(sim, p[1], p[2], 2, 10, 3)
           ELSE [ sim EXCEPT !.parking_phase = 2 ])
    ELSE IF sim.parking_phase = 2
    THEN Bind(sim.car.target_spot.rect, LAMBDA target :
           IF Away(sim, centerx(target), centery(target))
           THEN SteerTo(sim, centerx(target), centery(target), 1, 15, 5)
           ELSE [ sim EXCEPT !.car.state = "PARKED", !.car.speed = 0,
                             !.car.steering_angle = 0, !.parking_phase = 1 ])
    ELSE sim

\* ParkingSimulation.parallel_parking_movement
parallel_parking_movement(sim) ==
    parking_phases(IF sim.parking_phase = 0
                   THEN [ sim EXCEPT !.parking_phase = 1 ] ELSE sim)

\* ParkingSimulation.perpendicular_parking_movement: the same statements
perpendicular_parking_movement(sim) ==
    parking_phases(IF sim.parking_phase = 0
                   THEN [ sim EXCEPT !.parking_phase = 1 ] ELSE sim)

\* the car's x or y as find_nearest_parking_spot reads it
Pixels(a) == Trunc(a, TrigScale)

\* run: the branch on the car's state
run_state(sim) ==
    IF sim.car.state = "SEARCHING"
    THEN Bind(find_nearest_parking_spot(generate_parking_spots,
                  sim.parked_cars, sim.car.failed_spots,
                  Pixels(sim.car.x), Pixels(sim.car.y),
                  sim.car.attempt_count),
              LAMBDA target_spot :
                IF target_spot # None
                THEN [ sim EXCEPT !.car.target_spot = target_spot,
                                  !.car.state = "PARKING" ]
                ELSE IF sim.car.attempt_count >= 3
                THEN [ sim EXCEPT !.car.state = "FAILED" ]
                ELSE [ sim EXCEPT !.car = reset_position(
                         [ sim.car EXCEPT
                             !.attempt_count = @ + 1,
                             !.failed_spots =
                                 IF sim.car.target_spot # None
                                 THEN Append(@, sim.car.target_spot)
                                 ELSE @ ]) ])
    ELSE IF sim.car.state = "PARKING"
    THEN IF sim.car.target_spot.type = "PARALLEL"
         THEN parallel_parking_movement(sim)
         ELSE perpendicular_parking_movement(sim)
    ELSE sim

\* run: the collision check after the car has moved
run_collision(sim) ==
    IF check_collision(sim)
    THEN [ sim EXCEPT !.car = reset_position(
                        [ sim.car EXCEPT
                            !.failed_spots =
                                IF sim.car.target_spot # None
                                THEN Append(@, sim.car.target_spot)
                                ELSE @,
                            !.state = "SEARCHING",
                            !.attempt_count = @ + 1 ]),
                      !.parking_phase = IF @ = 0 THEN 0 ELSE 1 ]
    ELSE sim

\* the body of the loop without the test of `paused`
run_ignores_pause(sim) ==
    Bind(run_state(sim), LAMBDA s :
      run_collision([ s EXCEPT !.car = move(s.car) ]))

\* run: the body of the loop behind the events
run(sim) ==
    IF sim.paused THEN sim
    ELSE Bind(run_state(sim), LAMBDA s :
           run_collision([ s EXCEPT !.car = move(s.car) ]))

\* the sets of spots generate_parked_cars leaves free in the worlds of this
\* specification; it occupies between 60% and 80% of the spots
FreeSpots ==
    { {1, 4, 6, 8, 11, 15, 18, 22},
      {2, 4, 13, 14, 16, 18, 22, 23},
      {2, 11, 15, 17, 19, 21, 23},
      {1, 2, 3, 4, 12, 14, 19, 20, 22, 26} }

MainInit ==
    /\ Standby
    /\ \E K \in FreeSpots : probe = ParkingSimulation(ParkedExcept(K))

\* a click on the Start button
StartButton ==
    /\ probe.op \in { "ParkingSimulation", "frame", "start", "pause", "reset" }
    /\ probe' = [ probe EXCEPT !.op = "start", !.paused = FALSE ]
    /\ Idle

\* a click on the Pause button
PauseButton ==
    /\ probe.op \in { "ParkingSimulation", "frame", "start", "pause", "reset" }
    /\ probe' = [ probe EXCEPT !.op = "pause", !.paused = TRUE ]
    /\ Idle

\* a click on the Reset button
ResetButton ==
    /\ probe.op \in { "ParkingSimulation", "frame", "start", "pause", "reset" }
    /\ \E K \in FreeSpots :
         probe' = [ reset_simulation(probe, ParkedExcept(K))
                      EXCEPT !.op = "reset" ]
    /\ Idle

\* one pass of the loop behind its events
RunFrame ==
    /\ probe.op \in { "ParkingSimulation", "frame", "start", "pause", "reset" }
    /\ probe' = [ run(probe) EXCEPT !.op = "frame" ]
    /\ Idle

MainNext == StartButton \/ PauseButton \/ ResetButton \/ RunFrame

MainSpec == MainInit /\ [][MainNext]_vars

-----------------------------------------------------------------------------
(* Properties *)

\* the number of times this run put the vehicle into state "parking"
ParkingStarts == Cardinality({ i \in 1..Len(attempts) : attempts[i].routed })

\* C1: between resets current_attempt never exceeds max_attempts, and the
\* vehicle is put into state "parking" at most max_attempts times.
C1_AttemptsBounded ==
    /\ current_attempt <= max_attempts
    /\ ParkingStarts <= max_attempts

\* a run that used all its attempts, each of them a parking maneuver
C1_AllAttemptsUsed ==
    /\ current_attempt = max_attempts
    /\ ParkingStarts = max_attempts
    /\ status = StatusExhausted

\* C2: a spot whose attempt failed is excluded for the rest of the run, so no
\* two attempts of a run target the same spot.
C2_NoSpotAttemptedTwice ==
    \A i \in 1..Len(attempts) : \A j \in 1..Len(attempts) :
        i < j => attempts[j].spot # attempts[i].spot

\* C3: an update() sets the status "Successfully parked!" exactly when the
\* vehicle went from parking to idle in it; an update() in which the vehicle
\* completes `returning` never reports success and calls find_parking_spot.
C3_SuccessIffParkingCompleted ==
    [][ last_op' = "update" =>
          /\ (status' = StatusSuccess /\ status # StatusSuccess)
                <=> (vehicle.state = "parking" /\ vehicle'.state = "idle")
          /\ (vehicle.state = "returning" /\ vehicle'.state # "returning")
                => (status' # StatusSuccess /\ find_calls' >= 1)
      ]_vars

\* an update() has just completed a parking maneuver and reported it
C3_SuccessReported ==
    /\ last_op = "update"
    /\ status = StatusSuccess
    /\ vehicle.state = "idle"
    /\ ParkingStarts = 1

C6_ReturningReachesIdle ==
    /\ (vehicle.state = "returning") ~> (vehicle.state # "returning")
    /\ [][ (vehicle.state = "returning" /\ vehicle'.state # "returning")
            => ( /\ vehicle'.state \in {"idle", "parking"}
                 /\ vehicle_update(vehicle, obstacles).state = "idle"
                 /\ vehicle'.x = vehicle.start_x
                 /\ vehicle'.y = vehicle.start_y
                 /\ vehicle'.angle = vehicle.start_angle
                 /\ vehicle'.velocity = 0 )
          ]_vars

\* the vehicle is back at its start after a collision, and idle
C6_ReturnedAfterCollision ==
    /\ vehicle.state = "idle"
    /\ ParkingStarts >= 1
    /\ status # StatusSuccess
    /\ vehicle.x = vehicle.start_x /\ vehicle.y = vehicle.start_y
    /\ vehicle.angle = vehicle.start_angle

\* C7: when the attempts are used up without a success, the status is the
\* exhaustion message.  (An idle vehicle with no attempt left and no success
\* is final: update() changes nothing more.)
C7_ExhaustionReported ==
    ( /\ vehicle.state = "idle"
      /\ current_attempt >= max_attempts
      /\ status # StatusSuccess )
    => status = StatusExhausted

\* C8: after an attempt for which the pathfinder returned no route, the next
\* attempt targets another spot, not the same one.
C8_UnroutedSpotNotRetried ==
    \A i \in 1..(Len(attempts) - 1) :
        ~attempts[i].routed => attempts[i + 1].spot # attempts[i].spot

\* C9: in a world without a vacant spot the orchestrator comes to an update()
\* that no longer invokes spot selection.
C9_SelectionStopsWithoutSpots ==
    (Len(parking_spots) = 0) ~> (last_op = "update" /\ find_calls = 0)

\* C10: set_path is called, and the state overwritten with "parking", only
\* while the vehicle is idle.
C10_PlansOnlyWhenIdle == set_path_in \subseteq {"idle"}

\* an update() replanned after the vehicle had returned from a failed attempt
C10_ReplannedAfterReturn ==
    /\ last_op = "update"
    /\ set_path_in = {"idle"}
    /\ current_attempt = 2
    /\ vehicle.state = "parking"

\* C11: whenever a route exists, the cost of the path find_path returns (1 per
\* orthogonal step, 1.414 per diagonal step) is the least cost of all
\* 8-connected paths through unblocked cells from the start cell to the goal
\* cell, as the reference search finds it.
C11_ReturnedPathIsCheapest ==
    (probe.op = "find_path" /\ probe.path # << >>)
        => PathCost(probe.path)
             = reference_costs[probe.obstacles][CellOf(probe.start)][CellOf(probe.end)]

\* C12: no waypoint of a path find_path returns lies in a cell that the grid
\* built for the call marks blocked (a cell an obstacle reaches into, or one
\* within the margin of 1 cell around those).
C12_NoWaypointBlocked ==
    probe.op = "find_path" =>
        \A i \in 1..Len(probe.path) :
            WaypointCell(probe.path[i]) \in FreeCells(probe.obstacles)

\* a returned path that passes right next to a blocked cell on its way
C12_PathSkirtsObstacle ==
    /\ probe.op = "find_path"
    /\ Len(probe.path) >= 3
    /\ \E i \in 2..(Len(probe.path) - 1) :
         \E b \in create_obstacle_grid(probe.obstacles, GridSide, GridSide) :
            Adjacent(WaypointCell(probe.path[i]), b)

\* there is no route for a call: a cell is off the grid or blocked, or the
\* goal cell cannot be reached from the start cell through free cells
NoRoute(obs, start, end) ==
    \/ CellOf(start) \notin GridCells
    \/ CellOf(end) \notin GridCells
    \/ CellOf(start) \notin FreeCells(obs)
    \/ CellOf(end) \notin FreeCells(obs)
    \/ CellOf(end) \notin DOMAIN reference_costs[obs][CellOf(start)]

\* C13: find_path returns the empty list exactly when the start or goal cell
\* is outside the grid or blocked, or the goal cell cannot be reached from the
\* start cell through unblocked 8-connected cells; what it returns otherwise
\* is never partial: it leads from the start cell to the goal cell.
C13_EmptyIffNoRoute ==
    probe.op = "find_path" =>
        /\ probe.path = << >>
              <=> NoRoute(probe.obstacles, probe.start, probe.end)
        /\ probe.path # << >> =>
              /\ WaypointCell(probe.path[1]) = CellOf(probe.start)
              /\ WaypointCell(probe.path[Len(probe.path)]) = CellOf(probe.end)

\* a call between two free cells of the grid that a bar separates
C13_GoalWalledOff ==
    /\ probe.op = "find_path"
    /\ probe.path = << >>
    /\ CellOf(probe.start) \in FreeCells(probe.obstacles)
    /\ CellOf(probe.end) \in FreeCells(probe.obstacles)

\* the route find_path plans for the vehicle where it stands, to the entry
\* point of active_spot, around the obstacles and the other spots
PlannedRoute ==
    find_path(<<vehicle.x, vehicle.y>>,
              << calculate_entry_point(active_spot)[1] * PosScale,
                 calculate_entry_point(active_spot)[2] * PosScale >>,
              obstacles \o [ j \in 1..Len(SelectSeq(parking_spots,
                                             LAMBDA sp : sp # active_spot))
                               |-> SelectSeq(parking_spots,
                                             LAMBDA sp : sp # active_spot)[j].rect ],
              grid_width, grid_height)

\* the two waypoints of the maneuver inside active_spot
InSpotManeuver ==
    SubSeq(add_parking_maneuver(calculate_entry_point(active_spot), active_spot),
           2, 3)

\* C14: when planning succeeds, the path handed to the vehicle is the planned
\* route from the vehicle's position to the entry point, waypoint by waypoint,
\* followed by the two in-spot maneuver waypoints that end at the spot centre.
C14_PathIsRouteThenManeuver ==
    set_path_in # {} => vehicle.path = PlannedRoute \o InSpotManeuver

\* the spots find_nearest_parking_spot may choose from in the call: those no
\* parked car's rectangle equals and failed_spots does not hold
Eligible ==
    { spot \in { generate_parking_spots[k] :
                   k \in 1..Len(generate_parking_spots) } :
        /\ \A c \in 1..Len(probe.parked_cars) :
              probe.parked_cars[c].rect # spot.rect
        /\ \A f \in 1..Len(probe.failed_spots) : probe.failed_spots[f] # spot }

\* C15: find_nearest_parking_spot never returns a spot whose rectangle is a
\* parked car's rectangle or that is in failed_spots, and it returns None
\* exactly when every spot is occupied or failed.
C15_ReturnsEligibleOrNone ==
    probe.op = "find_nearest_parking_spot" =>
        /\ probe.result # None => probe.result \in Eligible
        /\ probe.result = None <=> Eligible = {}

\* None is returned although a spot is unoccupied: the car failed at it
C15_AllFreeSpotsFailed ==
    /\ probe.op = "find_nearest_parking_spot"
    /\ probe.result = None
    /\ Len(probe.failed_spots) >= 2
    /\ Unoccupied(probe.parked_cars) # {}

\* the spots of E nearer to the car than spot, and those not farther
Nearer(E, spot) ==
    { o \in E : distance_squared(probe.car_x, probe.car_y, o)
                   < distance_squared(probe.car_x, probe.car_y, spot) }
NotFarther(E, spot) ==
    { o \in E : distance_squared(probe.car_x, probe.car_y, o)
                   <= distance_squared(probe.car_x, probe.car_y, spot) }

\* spot is at index i (from 0) of the spots E in ascending order of distance
AtIndex(E, spot, i) ==
    /\ spot \in E
    /\ Cardinality(Nearer(E, spot)) <= i
    /\ Cardinality(NotFarther(E, spot)) > i

\* C16: find_nearest_parking_spot returns the spot at index
\* min(attempt_count, count-1) of the eligible spots in ascending order of
\* distance: the nearest when attempt_count is 0, the farthest (no error) when
\* attempt_count is at least the number of eligible spots.
C16_ReturnsSpotAtClampedIndex ==
    probe.op = "find_nearest_parking_spot" =>
        Bind(Eligible, LAMBDA E :
            E # {} =>
              /\ AtIndex(E, probe.result,
                         Min(probe.attempt_count, Cardinality(E) - 1))
              /\ probe.attempt_count = 0 => Nearer(E, probe.result) = {}
              /\ probe.attempt_count >= Cardinality(E)
                    => NotFarther(E, probe.result) = E)

\* the index is clamped: more attempts than eligible spots, and the farthest
\* of several spots is returned
C16_FarthestWhenOutOfSpots ==
    /\ probe.op = "find_nearest_parking_spot"
    /\ Cardinality(Eligible) >= 2
    /\ probe.attempt_count > Cardinality(Eligible)
    /\ Cardinality(Nearer(Eligible, probe.result)) = Cardinality(Eligible) - 1

\* the vehicle is within r units of its start position
NearStart(v, r) == DistLess(v.start_x - v.x, v.start_y - v.y, r)

\* the heading error to the start heading, wrapped
StartHeadingError(v) == WrapDiff(v.start_angle, v.angle)

\* C17: a tick takes the vehicle from returning to idle only when it is within
\* 10 units of the start position and its heading within 2 degrees of the
\* start heading, and leaves it at the start pose exactly, with velocity 0;
\* the heading is turned toward the start heading only in ticks that begin
\* within the 10 units.
C17_IdleOnlyAtStartPose ==
    [][ (vehicle.state = "returning" /\ last_op' = "update") =>
          /\ vehicle'.state = "idle" =>
                /\ NearStart(vehicle, 10)
                /\ Abs(StartHeadingError(vehicle)) < 2
                /\ vehicle'.x = vehicle.start_x
                /\ vehicle'.y = vehicle.start_y
                /\ vehicle'.angle = vehicle.start_angle
                /\ vehicle'.velocity = 0
          /\ (NearStart(vehicle, 10) /\ Abs(StartHeadingError(vehicle)) >= 2) =>
                /\ vehicle'.state = "returning"
                /\ vehicle'.x = vehicle.start_x
                /\ vehicle'.y = vehicle.start_y
                /\ Abs(StartHeadingError(vehicle'))
                      < Abs(StartHeadingError(vehicle))
      ]_vars

\* a tick has brought the vehicle back from an abandoned maneuver: idle at the
\* start pose, the path not completed
C17_ReturnedToStartPose ==
    /\ last_op = "update"
    /\ vehicle.state = "idle"
    /\ vehicle.current_path_index < Len(vehicle.path)
    /\ ~vehicle.has_target
    /\ vehicle.x = vehicle.start_x /\ vehicle.y = vehicle.start_y
    /\ vehicle.angle = vehicle.start_angle
    /\ vehicle.velocity = 0

\* C18: after any sequence of ticks and commands (move_to, set_path and the
\* state set to parking, reset) the velocity is within [0, max_velocity].
C18_VelocityWithinLimits ==
    /\ 0 <= vehicle.velocity
    /\ vehicle.velocity <= max_velocity

\* the vehicle is put into state parking while it moves at max_velocity
C18_ParkingAtFullSpeed ==
    /\ vehicle.state = "parking"
    /\ vehicle.velocity = max_velocity

\* C19: after any sequence of ticks and commands, whatever heading the vehicle
\* was constructed with and whatever target heading move_to was given, the
\* heading is within [0, 360).
C19_HeadingNormalized ==
    /\ 0 <= vehicle.angle
    /\ vehicle.angle < 360

\* C20: the rectangle collision test is symmetric: with A as the vehicle and B
\* as the obstacle it reports a collision exactly when it does with B as the
\* vehicle and A as the obstacle.
C20_CollisionTestSymmetric ==
    probe.op = "check_rectangle_collision" => probe.A_hits_B = probe.B_hits_A

\* two Rects share area (touching edges do not)
Overlaps(a, b) ==
    /\ a.left < right(b) /\ b.left < right(a)
    /\ a.top < bottom(b) /\ b.top < bottom(a)

\* C21: in every world create_environment produces, each slot has yielded
\* either an obstacle or a vacant spot, and no vacant spot's rectangle overlaps
\* an obstacle's rectangle.
C21_SpotsClearOfObstacles ==
    /\ Len(obstacles) + Len(parking_spots) = NumSlots
    /\ \A i \in 1..Len(parking_spots) : \A j \in 1..Len(obstacles) :
         ~Overlaps(parking_spots[i].rect, obstacles[j])

\* C22: in main.py's loop attempt_count never exceeds 3, the limit the display
\* shows, and no frame takes the car from SEARCHING to PARKING once
\* attempt_count has reached 3.
C22_AttemptCountWithinLimit ==
    [][ probe'.op = "frame" =>
          /\ probe'.car.attempt_count <= 3
          /\ (probe.car.state = "SEARCHING" /\ probe'.car.state = "PARKING")
               => probe.car.attempt_count < 3
      ]_vars

\* C23: every step of main.py's loop is a frame or one of the commands start,
\* pause and reset, and a frame passed while the simulation is paused changes
\* neither the car's position, angle, speed, state, attempt_count, target_spot
\* or failed_spots nor the maneuver phase.
C23_PausedFrameChangesNothing ==
    [][ /\ probe'.op \in { "frame", "start", "pause", "reset" }
        /\ (probe.paused /\ probe'.op = "frame") =>
             /\ probe'.car.x = probe.car.x
             /\ probe'.car.y = probe.car.y
             /\ probe'.car.angle = probe.car.angle
             /\ probe'.car.speed = probe.car.speed
             /\ probe'.car.state = probe.car.state
             /\ probe'.car.attempt_count = probe.car.attempt_count
             /\ probe'.car.target_spot = probe.car.target_spot
             /\ probe'.car.failed_spots = probe.car.failed_spots
             /\ probe'.parking_phase = probe.parking_phase
      ]_vars

\* a frame has passed while the simulation was paused in the final phase of
\* an attempt that followed a collision
C23_PausedInManeuver ==
    /\ probe.op = "frame"
    /\ probe.paused
    /\ probe.car.state = "PARKING"
    /\ probe.car.speed = 1
    /\ probe.parking_phase = 2
    /\ probe.car.attempt_count >= 1
    /\ Len(probe.car.failed_spots) >= 1

\* the numbers of the unoccupied spots the car has not failed at
Untried(sim) ==
    { k \in Unoccupied(sim.parked_cars) :
        \A f \in 1..Len(sim.car.failed_spots) :
            sim.car.failed_spots[f] # generate_parking_spots[k] }

\* C29: a frame that starts an attempt (SEARCHING to PARKING) targets the
\* nearest unoccupied spot that has not been tried: after the attempt on the
\* nearest spot has failed by collision the next attempt is on the
\* second-nearest spot of the original set, and no untried spot is skipped.
C29_NextAttemptOnNearestUntried ==
    [][ ( /\ probe'.op = "frame"
          /\ probe.car.state = "SEARCHING"
          /\ probe'.car.state = "PARKING" )
        => \A k \in Untried(probe) :
             distance_squared(Pixels(probe.car.x), Pixels(probe.car.y),
                              probe'.car.target_spot)
               <= distance_squared(Pixels(probe.car.x), Pixels(probe.car.y),
                                   generate_parking_spots[k])
      ]_vars

\* C30: a frame that assigns a target spot (SEARCHING to PARKING) leaves the
\* maneuver in the approach phase: parking_phase is 1, or does not exist yet
\* and is created as 1 by the first movement; on the first attempt, after a
\* collision, after a completed parking and after a reset during a maneuver.
C30_AssignedInApproachPhase ==
    [][ ( /\ probe'.op = "frame"
          /\ probe.car.state = "SEARCHING"
          /\ probe'.car.state = "PARKING" )
        => probe'.parking_phase \in { 0, 1 }
      ]_vars

\* C24: an update() tick leaves the motion state as it is or changes it along
\* moving to rotating, moving to idle, rotating to idle, parking to returning,
\* parking to idle or returning to idle; the state is always one of the five
\* named states, and a tick in state idle changes no field of the vehicle.
C24_TickFollowsStateMachine ==
    [][ /\ vehicle'.state \in { "idle", "moving", "rotating", "parking",
                                "returning" }
        /\ last_op' = "update" =>
             /\ \/ vehicle'.state = vehicle.state
                \/ << vehicle.state, vehicle'.state >>
                     \in { << "moving", "rotating" >>, << "moving", "idle" >>,
                           << "rotating", "idle" >>,
                           << "parking", "returning" >>,
                           << "parking", "idle" >>,
                           << "returning", "idle" >> }
             /\ vehicle.state = "idle" => vehicle' = vehicle
      ]_vars

\* ticks have taken the vehicle through moving and rotating to idle: it stands
\* at its target, away from its start, at a heading move_to was given
C24_RotatedToIdle ==
    /\ last_op = "update"
    /\ vehicle.state = "idle"
    /\ vehicle.has_target
    /\ ~vehicle.has_target_angle
    /\ vehicle.angle \in TargetHeadings
    /\ vehicle.x # vehicle.start_x

\* the vehicle is within 5 units of the waypoint its path cursor points at
AtWaypoint(v) ==
    /\ v.current_path_index < Len(v.path)
    /\ DistLess(v.path[v.current_path_index + 1][1] * PosScale - v.x,
                v.path[v.current_path_index + 1][2] * PosScale - v.y, 5)

\* C25: the path cursor is within 0..len(path); from one set_path (or reset)
\* to the next it never decreases, and a tick advances it by at most one and
\* only when the tick starts within 5 units of the waypoint it points at; a
\* tick takes the vehicle from parking to idle only with the cursor at
\* len(path).  So a completed maneuver has reached every waypoint in order.
C25_CursorAdvancesThroughWaypoints ==
    [][ /\ vehicle'.current_path_index \in 0..Len(vehicle'.path)
        /\ last_op' \notin { "set_path", "reset" } =>
             /\ vehicle'.path = vehicle.path
             /\ vehicle'.current_path_index >= vehicle.current_path_index
        /\ last_op' = "update" =>
             /\ vehicle'.current_path_index <= vehicle.current_path_index + 1
             /\ vehicle'.current_path_index = vehicle.current_path_index + 1
                   => (vehicle.state = "parking" /\ AtWaypoint(vehicle))
             /\ (vehicle.state = "parking" /\ vehicle'.state = "idle")
                   => vehicle'.current_path_index = Len(vehicle.path)
      ]_vars

\* a tick has completed a maneuver along a path of two waypoints
C25_TwoWaypointsCompleted ==
    /\ last_op = "update"
    /\ vehicle.state = "idle"
    /\ Len(vehicle.path) = 2
    /\ vehicle.current_path_index = 2
    /\ vehicle.velocity = 0

\* the point a tick that starts in v steers at, as the direction from the
\* vehicle to it; << 0, 0 >> if the tick steers at no point
Bearing(v, obs) ==
    IF v.state = "moving" /\ v.has_target
    THEN Direction(v.target_x * PosScale - v.x, v.target_y * PosScale - v.y)
    ELSE IF v.state = "parking" /\ ~is_colliding(v, obs)
            /\ v.current_path_index < Len(v.path)
    THEN Direction(v.path[v.current_path_index + 1][1] * PosScale - v.x,
                   v.path[v.current_path_index + 1][2] * PosScale - v.y)
    ELSE IF v.state = "returning"
            /\ ~DistLess(v.start_x - v.x, v.start_y - v.y, 10)
    THEN Direction(v.start_x - v.x, v.start_y - v.y)
    ELSE << 0, 0 >>

\* C26: a tick changes the heading by at most turning_speed degrees (modulo
\* 360).  A tick that steers at a point turns exactly when the wrapped heading
\* error exceeds 2 degrees, and the turn brings the heading closer to the
\* bearing; a tick that turns to a given heading (rotating, and returning at
\* the start) never leaves the heading farther from it, and brings it closer
\* while the error is 2 degrees or more.
C26_TurnsBoundedAndTowardBearing ==
    [][ last_op' = "update" =>
          /\ Abs(WrapDiff(vehicle'.angle, vehicle.angle)) <= turning_speed
          /\ Bearing(vehicle, obstacles) # << 0, 0 >> =>
               /\ ~WithinBand(vehicle.angle, Bearing(vehicle, obstacles), 2)
                    <=> vehicle'.angle # vehicle.angle
               /\ vehicle'.angle # vehicle.angle =>
                    Dot(vehicle'.angle, Bearing(vehicle, obstacles))
                      > Dot(vehicle.angle, Bearing(vehicle, obstacles))
          /\ (vehicle.state = "rotating" /\ vehicle.has_target_angle) =>
               /\ Abs(WrapDiff(vehicle.target_angle, vehicle'.angle))
                    <= Abs(WrapDiff(vehicle.target_angle, vehicle.angle))
               /\ Abs(WrapDiff(vehicle.target_angle, vehicle.angle)) >= 2 =>
                    Abs(WrapDiff(vehicle.target_angle, vehicle'.angle))
                      < Abs(WrapDiff(vehicle.target_angle, vehicle.angle))
          /\ ( /\ vehicle.state = "returning"
               /\ DistLess(vehicle.start_x - vehicle.x,
                           vehicle.start_y - vehicle.y, 10) ) =>
               /\ Abs(WrapDiff(vehicle.start_angle, vehicle'.angle))
                    <= Abs(WrapDiff(vehicle.start_angle, vehicle.angle))
               /\ Abs(WrapDiff(vehicle.start_angle, vehicle.angle)) >= 2 =>
                    Abs(WrapDiff(vehicle.start_angle, vehicle'.angle))
                      < Abs(WrapDiff(vehicle.start_angle, vehicle.angle))
      ]_vars

\* a tick of a maneuver has turned the vehicle clockwise through heading 0
C26_TurnedThroughZero ==
    /\ last_op = "update"
    /\ vehicle.state = "parking"
    /\ vehicle.start_angle = 0
    /\ vehicle.angle = 360 - turning_speed

\* C27: under the orchestrator of parking.py a vehicle in state parking never
\* moves faster than half of max_velocity.
C27_ParkingAtHalfSpeed ==
    vehicle.state = "parking" => vehicle.velocity <= max_velocity \div 2

\* a maneuver started by the orchestrator has reached half of max_velocity
C27_ManeuverAtItsLimit ==
    /\ last_op = "update"
    /\ vehicle.state = "parking"
    /\ vehicle.velocity = max_velocity \div 2
    /\ current_attempt >= 1

\* the waypoint at the centre of a cell
CentreOf(c) == << CellCentre(c[1]), CellCentre(c[2]) >>

\* C28: a non-empty path returned by find_path starts at the centre of the
\* start cell and ends at the centre of the goal cell, has no waypoint twice,
\* and each waypoint is the centre of a cell that touches the cell of the
\* waypoint before it by a side or a corner.
C28_PathIsChainOfCellCentres ==
    (probe.op = "find_path" /\ probe.path # << >>) =>
        /\ probe.path[1] = CentreOf(CellOf(probe.start))
        /\ probe.path[Len(probe.path)] = CentreOf(CellOf(probe.end))
        /\ \A i \in 1..Len(probe.path) :
             /\ probe.path[i] = CentreOf(WaypointCell(probe.path[i]))
             /\ \A j \in 1..Len(probe.path) :
                  i # j => probe.path[i] # probe.path[j]
        /\ \A i \in 1..(Len(probe.path) - 1) :
             Adjacent(WaypointCell(probe.path[i]),
                      WaypointCell(probe.path[i + 1]))

\* a returned path of at least four waypoints with a straight and a diagonal
\* step
C28_PathWithBothSteps ==
    /\ probe.op = "find_path"
    /\ Len(probe.path) >= 4
    /\ \E i \in 1..(Len(probe.path) - 1) :
         StepCost(WaypointCell(probe.path[i]),
                  WaypointCell(probe.path[i + 1])) = diagonal_cost
    /\ \E i \in 1..(Len(probe.path) - 1) :
         StepCost(WaypointCell(probe.path[i]),
                  WaypointCell(probe.path[i + 1])) = CostScale

\* C31: while the status is "Successfully parked!" the vehicle is idle, and an
\* update() changes neither the vehicle (state, pose, velocity, path, cursor)
\* nor current_attempt, active_spot or the status; only reset() ends this.
C31_SuccessIsFinal ==
    [][ status = StatusSuccess =>
          /\ vehicle.state = "idle"
          /\ last_op' = "update" =>
               /\ vehicle' = vehicle
               /\ current_attempt' = current_attempt
               /\ active_spot' = active_spot
               /\ status' = StatusSuccess
               /\ plan_calls' = 0
      ]_vars

\* the vehicle stands parked at the end of its path with attempts left over,
\* after an update()
C31_ParkedWithAttemptsLeft ==
    /\ last_op = "update"
    /\ status = StatusSuccess
    /\ current_attempt < max_attempts
    /\ vehicle.current_path_index = Len(vehicle.path)
    /\ vehicle.x # vehicle.start_x
    /\ find_calls = 0

\* C32: one update() raises current_attempt by at most 1 and plans a route at
\* most once, whether find_parking_spot is reached from the branch of the
\* completed return or from the retry check.
C32_OneAttemptPerUpdate ==
    [][ last_op' = "update" =>
          /\ current_attempt' <= current_attempt + 1
          /\ current_attempt' >= current_attempt
          /\ plan_calls' <= 1
      ]_vars

\* the update() that ended the return from the second attempt has planned the
\* third
C32_ThirdAttemptPlanned ==
    /\ last_op = "update"
    /\ find_calls = 1
    /\ plan_calls = 1
    /\ current_attempt = max_attempts
    /\ vehicle.state = "parking"
    /\ vehicle.x = vehicle.start_x


\* C33: whenever the vehicle is in state "parking", active_spot is one of the
\* vacant spots of the current world (no parked car stands in it), the
\* vehicle's path is not empty and ends at the centre of active_spot, and
\* 1 <= current_attempt <= max_attempts.
C33_ParkingTargetsActiveSpot ==
    vehicle.state = "parking" =>
      /\ \E k \in 1..Len(parking_spots) : parking_spots[k] = active_spot
      /\ \A j \in 1..Len(obstacles) :
            obstacles[j] # Rect(active_spot.rect.left, active_spot.rect.top,
                                active_spot.rect.width - 10,
                                active_spot.rect.height - 10)
      /\ Len(vehicle.path) > 0
      /\ vehicle.path[Len(vehicle.path)]
           = <<centerx(active_spot.rect), centery(active_spot.rect)>>
      /\ current_attempt >= 1
      /\ current_attempt <= max_attempts

C33_ParkingOnLaterAttempt ==
    /\ last_op = "update" /\ vehicle.state = "parking"
    /\ current_attempt = 2 /\ vehicle.current_path_index >= 1
    /\ active_spot # NoneSpot


\* C34: whenever the status is "Successfully parked!", the vehicle's footprint
\* at its pose does not collide with any obstacle.
C34_ParkedClearOfObstacles ==
    status = StatusSuccess => ~is_colliding(vehicle, obstacles)


C34_ParkedBesideParkedCars ==
    /\ last_op = "update" /\ status = StatusSuccess
    /\ Len(obstacles) = NumSlots - 1
    /\ vehicle.current_path_index = Len(vehicle.path)
    /\ vehicle.x > vehicle.start_x


\* C35: every search of find_path on the finite grid ends: its loop pops
\* finitely many entries and then find_path returns, with a path or with the
\* empty list.
C35_FindPathTerminates ==
    (probe.op = "a_star") ~> (probe.op = "a_star_return")

C35_ReturnedAfterReinsertion ==
    /\ probe.op = "a_star_return"
    /\ probe.reinserted
    /\ probe.st.pops > Cardinality(probe.popped)

=============================================================================
